---- MODULE Spec2Model ----
(***************************************************************************)
(* Macro regimes / rate-shock analysis: RegimeClassifier,                  *)
(* PerformanceAnalyzer, RateShockAnalyzer, Config.validate and main.       *)
(*                                                                         *)
(* Numbers.  Rates, yields, thresholds and the volatility index are        *)
(* integers in a fixed unit (basis points for rates, index points for the  *)
(* volatility index).  A mean is kept as the pair (sum, count) and compared*)
(* by cross-multiplication, so no rounding is introduced by the model.     *)
(* A missing value (pandas NaN) is the record NaN; a missing object        *)
(* (Python None) is the record None.                                       *)
(***************************************************************************)
EXTENDS Integers, Sequences, FiniteSets, TLC

VARIABLES
    config,          \* the Config object handed to every component
    classifier,      \* RegimeClassifier(combined_data, config): data, regime_data
    classifier_t,    \* a second RegimeClassifier built on a truncated panel
    analyzer,        \* PerformanceAnalyzer(regime_data, config): data, returns_data
    shock_analyzer,  \* RateShockAnalyzer(data, config): data, shock_dates, shock_responses
    result,          \* the last call: the stored frame it returned, or what it raised
    handed,          \* the panels components returned to their caller, as the
                     \* caller sees them through the reference it was given
    main             \* main(): its position and its local variables

vars == <<config, classifier, classifier_t, analyzer, shock_analyzer, result, handed, main>>

----------------------------------------------------------------------------
(* Values *)

None == [none |-> TRUE]
Some(x) == [none |-> FALSE, val |-> x]

\* what a call did: returned a value, or raised an exception
Returned(x) == [raised |-> FALSE, value |-> x]
Raised(kind, at) == [raised |-> TRUE, error |-> kind, at |-> at]
\* a call of `name` with argument `arg` (None when it was left out) and its outcome
Call(name, arg, outcome) == [call |-> name, arg |-> arg, outcome |-> outcome]

\* A returned panel is the object the component keeps in one of its
\* attributes (`return df` after `self.regime_data = df`).  `ref` names that
\* attribute while it still holds the object, `then` is the panel as it was
\* returned and `now` the panel as the object reads at present.
HandOver(H, ref, frame) == H \cup {[ref |-> ref, then |-> frame, now |-> frame]}
\* the attribute is bound to a new object: the old object is out of the
\* component's reach and stays as it is; it is kept only if it already differs
Released(H, ref) ==
    {h \in H : h.ref # ref}
        \cup {[h EXCEPT !.ref = "released"] : h \in {g \in H : g.ref = ref /\ g.now # g.then}}
\* the object the attribute holds is changed in place
MutatedInPlace(H, ref, frame) ==
    {IF h.ref = ref THEN [h EXCEPT !.now = frame] ELSE h : h \in H}

NaN == [ok |-> FALSE, v |-> 0]
Num(x) == [ok |-> TRUE, v |-> x]
notna(x) == x.ok

Max2(a, b) == IF a >= b THEN a ELSE b

\* sum of column `name` over rows lo..hi of a frame
RECURSIVE SumRange(_, _, _, _)
SumRange(df, name, lo, hi) ==
    IF lo > hi THEN 0 ELSE df[hi][name] + SumRange(df, name, lo, hi - 1)

----------------------------------------------------------------------------
(* Bounds of the model *)

MaxDays == 3
MaxLookback == 2

----------------------------------------------------------------------------
(* RegimeClassifier.classify_regimes *)

\* df[name].diff(periods): value minus the value `periods` rows earlier, NaN
\* for the first `periods` rows.  Row i of the model is row position i - 1.
DiffLookahead(df, name, periods, i) ==
    IF i + periods <= Len(df) THEN Num(df[i + periods][name] - df[i][name]) ELSE NaN
DiffOffByOne(df, name, periods, i) ==
    IF i > periods + 1 THEN Num(df[i][name] - df[i - periods - 1][name]) ELSE NaN
Diff(df, name, periods, i) ==
    IF i > periods THEN Num(df[i][name] - df[i - periods][name]) ELSE NaN

\* df[name].rolling(window, min_periods=1).mean(): mean of the last `window`
\* rows ending at row i (fewer at the start), as (sum, count).
RollingMeanNoWindow(df, name, window, i) ==
    [num |-> df[i][name], den |-> 1]
RollingMean(df, name, window, i) ==
    LET lo == Max2(1, i - window + 1)
    IN  [num |-> SumRange(df, name, lo, i), den |-> i - lo + 1]

\* mean > level, exactly
MeanExceeds(m, level) == m.num > level * m.den

\* The if / elif chain of the loop body.
RegimeRuleRateFirst(vix_level, rate_chg, yield_chg, threshold, vix_threshold) ==
    IF (notna(rate_chg) /\ rate_chg.v > threshold)
         \/ (notna(yield_chg) /\ yield_chg.v > threshold) THEN "TIGHTENING"
    ELSE IF (notna(rate_chg) /\ rate_chg.v < -threshold)
         \/ (notna(yield_chg) /\ yield_chg.v < -threshold) THEN "EASING"
    ELSE IF MeanExceeds(vix_level, vix_threshold) THEN "STRESS"
    ELSE "NORMAL"
RegimeRuleEasingFirst(vix_level, rate_chg, yield_chg, threshold, vix_threshold) ==
    IF MeanExceeds(vix_level, vix_threshold) THEN "STRESS"
    ELSE IF (notna(rate_chg) /\ rate_chg.v < -threshold)
         \/ (notna(yield_chg) /\ yield_chg.v < -threshold) THEN "EASING"
    ELSE IF (notna(rate_chg) /\ rate_chg.v > threshold)
         \/ (notna(yield_chg) /\ yield_chg.v > threshold) THEN "TIGHTENING"
    ELSE "NORMAL"
RegimeRule(vix_level, rate_chg, yield_chg, threshold, vix_threshold) ==
    IF MeanExceeds(vix_level, vix_threshold) THEN "STRESS"
    ELSE IF (notna(rate_chg) /\ rate_chg.v > threshold)
         \/ (notna(yield_chg) /\ yield_chg.v > threshold) THEN "TIGHTENING"
    ELSE IF (notna(rate_chg) /\ rate_chg.v < -threshold)
         \/ (notna(yield_chg) /\ yield_chg.v < -threshold) THEN "EASING"
    ELSE "NORMAL"

\* range(lookback, len(df)): the rows the loop relabels
LoopRowsFromStart(lookback, n) == 1..n
LoopRows(lookback, n) == (lookback + 1)..n

\* The derived columns of one row.
DerivedRow(df, cfg, i) ==
    [RATE_CHANGE_QTR  |-> Diff(df, "FED_FUNDS", cfg.QUARTERLY_LOOKBACK, i),
     YIELD_CHANGE_QTR |-> Diff(df, "TREASURY_10Y", cfg.QUARTERLY_LOOKBACK, i),
     VIX_MA           |-> RollingMean(df, "VIX", cfg.VIX_LOOKBACK, i)]

\* The labelled frame classify_regimes builds and returns: a copy of the panel,
\* every column kept, with the derived columns and the label.
classify_regimes(df, cfg) ==
    [i \in 1..Len(df) |->
        LET d == DerivedRow(df, cfg, i)
        IN  [RATE_CHANGE_QTR  |-> d.RATE_CHANGE_QTR,
             YIELD_CHANGE_QTR |-> d.YIELD_CHANGE_QTR,
             VIX_MA           |-> d.VIX_MA,
             REGIME           |->
                IF i \in LoopRows(cfg.QUARTERLY_LOOKBACK, Len(df))
                THEN RegimeRule(d.VIX_MA, d.RATE_CHANGE_QTR, d.YIELD_CHANGE_QTR,
                                cfg.RATE_CHANGE_THRESHOLD, cfg.VIX_STRESS_THRESHOLD)
                ELSE "NORMAL"]
            @@ df[i]]

\* RegimeClassifier(data, config)
NewClassifier(data) == [data |-> data, regime_data |-> None]

----------------------------------------------------------------------------
(* Inputs of the classifier specification *)

RateLevels == {0, 2}
YieldLevels == {0, 2}
VixLevels == {1, 3}

PanelRows == [FED_FUNDS : RateLevels, TREASURY_10Y : YieldLevels, VIX : VixLevels]
Panels == UNION {[1..n -> PanelRows] : n \in 1..MaxDays}

ClassifierConfigs ==
    [QUARTERLY_LOOKBACK    : 1..MaxLookback,
     VIX_LOOKBACK          : {1, 2},
     RATE_CHANGE_THRESHOLD : {1, 2},
     VIX_STRESS_THRESHOLD  : {2}]

----------------------------------------------------------------------------
(* Specification: one RegimeClassifier on a panel, and one on a prefix of it *)

Init ==
    /\ config \in ClassifierConfigs
    /\ classifier \in {NewClassifier(p) : p \in Panels}
    /\ classifier_t = None
    /\ analyzer = None
    /\ shock_analyzer = None
    /\ result = None
    /\ handed = {}
    /\ main = None

\* classifier.classify_regimes()
ClassifyRegimes ==
    /\ classifier # None
    /\ LET df == classify_regimes(classifier.data, config)
       IN  /\ classifier' = [classifier EXCEPT !.regime_data = Some(df)]
           /\ result' = Call("classify_regimes", None, Returned("regime_data"))
           /\ handed' = HandOver(Released(handed, "classifier.regime_data"),
                                 "classifier.regime_data", df)
    /\ UNCHANGED <<config, main, classifier_t, analyzer, shock_analyzer>>

\* RegimeClassifier(panel[:t], config).classify_regimes(): the same panel cut
\* after its t-th row, labelled by a classifier of its own
ClassifyTruncated ==
    /\ \E t \in 1..Len(classifier.data) :
         LET df == classify_regimes(SubSeq(classifier.data, 1, t), config)
         IN  /\ classifier_t' = Some([data |-> SubSeq(classifier.data, 1, t),
                                      regime_data |-> Some(df)])
             /\ result' = Call("classify_regimes", None, Returned("regime_data"))
             /\ handed' = HandOver(Released(handed, "classifier_t.regime_data"),
                                   "classifier_t.regime_data", df)
    /\ UNCHANGED <<config, main, classifier, analyzer, shock_analyzer>>

Next == ClassifyRegimes \/ ClassifyTruncated

Spec == Init /\ [][Next]_vars

----------------------------------------------------------------------------
(* Claims about classify_regimes, stated on the raw panel *)

Labelled == classifier.regime_data # None
Labels == classifier.regime_data.val
Panel == classifier.data

\* row i lies at or after the lookback horizon (row position i - 1 >= lookback)
AtOrAfterHorizon(i) == i - 1 >= config.QUARTERLY_LOOKBACK

\* trailing change of a series at row i over the quarterly lookback
TrailingChange(name, i) == Panel[i][name] - Panel[i - config.QUARTERLY_LOOKBACK][name]

\* the volatility average at row i exceeds the stress threshold
VolAverageHigh(i) ==
    LET rows == {j \in 1..i : j > i - config.VIX_LOOKBACK}
    IN  SumRange(Panel, "VIX", i - Cardinality(rows) + 1, i)
            > config.VIX_STRESS_THRESHOLD * Cardinality(rows)

RisingMove(i) ==
    \/ TrailingChange("FED_FUNDS", i) > config.RATE_CHANGE_THRESHOLD
    \/ TrailingChange("TREASURY_10Y", i) > config.RATE_CHANGE_THRESHOLD
FallingMove(i) ==
    \/ TrailingChange("FED_FUNDS", i) < -config.RATE_CHANGE_THRESHOLD
    \/ TrailingChange("TREASURY_10Y", i) < -config.RATE_CHANGE_THRESHOLD

\* C1: on every date at or after the lookback horizon where the volatility
\* average exceeds the stress threshold and a trailing rate or yield change
\* exceeds +threshold (or is below -threshold), the label is STRESS, never
\* TIGHTENING (never EASING).
C1_StressPriority ==
    Labelled =>
        \A i \in 1..Len(Panel) :
            (AtOrAfterHorizon(i) /\ VolAverageHigh(i) /\ (RisingMove(i) \/ FallingMove(i)))
                => Labels[i].REGIME = "STRESS"

\* a labelled panel holding a date with high volatility and a rising move, and
\* a date with high volatility and a falling move
C1_Witness ==
    /\ Labelled
    /\ \E i \in 1..Len(Panel) : AtOrAfterHorizon(i) /\ VolAverageHigh(i) /\ RisingMove(i)
    /\ \E i \in 1..Len(Panel) : AtOrAfterHorizon(i) /\ VolAverageHigh(i) /\ FallingMove(i)

\* C2: every date whose row position is below quarterly_lookback_days is
\* labelled NORMAL, whatever the data on or before it.
C2_EarlyDatesNormal ==
    Labelled =>
        \A i \in 1..Len(Panel) : ~AtOrAfterHorizon(i) => Labels[i].REGIME = "NORMAL"

\* a labelled panel whose first date already has a volatility average above
\* the stress threshold, and which has a later date carrying another label
C2_Witness ==
    /\ Labelled
    /\ ~AtOrAfterHorizon(1) /\ VolAverageHigh(1)
    /\ \E i \in 1..Len(Panel) : Labels[i].REGIME # "NORMAL"

\* C3: labelling the panel cut at t gives every date <= t the label it has in
\* the labelling of the full panel.
C3_Causal ==
    (Labelled /\ classifier_t # None) =>
        LET cut == classifier_t.val.regime_data.val
        IN  \A d \in 1..Len(cut) : cut[d].REGIME = Labels[d].REGIME

\* a proper prefix was labelled, it carries a label other than NORMAL, and the
\* full panel goes on to a date with a different label and different values
C3_Witness ==
    /\ Labelled
    /\ classifier_t # None
    /\ LET cut == classifier_t.val.regime_data.val
       IN  /\ Len(cut) < Len(Panel)
           /\ \E d \in 1..Len(cut) : cut[d].REGIME # "NORMAL"
           /\ Labels[Len(cut) + 1].REGIME # Labels[Len(cut)].REGIME
           /\ Panel[Len(cut) + 1] # Panel[Len(cut)]

----------------------------------------------------------------------------
(* The end-to-end scenarios: 300-day synthetic panels under the shipped     *)
(* Config (rates in basis points: 0.20 is 20, 0.25 is 25, 0.75 is 75)       *)

Config_QUARTERLY_LOOKBACK == 63
Config_VIX_LOOKBACK == 5
Config_RATE_CHANGE_THRESHOLD == 20
Config_VIX_STRESS_THRESHOLD == 25

ShippedConfig ==
    [QUARTERLY_LOOKBACK    |-> Config_QUARTERLY_LOOKBACK,
     VIX_LOOKBACK          |-> Config_VIX_LOOKBACK,
     RATE_CHANGE_THRESHOLD |-> Config_RATE_CHANGE_THRESHOLD,
     VIX_STRESS_THRESHOLD  |-> Config_VIX_STRESS_THRESHOLD]

ScenarioDays == 300
JumpDay == 70
SpikeDay == 150

\* days are row positions 0 .. ScenarioDays - 1; day d is row d + 1
DayRow(d) == d + 1

\* a series that is `before` up to day - 1 and `after` from day on
Step(day, before, after) == [i \in 1..ScenarioDays |-> IF i - 1 < day THEN before ELSE after]
Flat(level) == [i \in 1..ScenarioDays |-> level]
\* `base` everywhere except `peak` on days from..to
Bump(from, to, base, peak) ==
    [i \in 1..ScenarioDays |-> IF i - 1 >= from /\ i - 1 <= to THEN peak ELSE base]

MakePanel(rate, yield, vix) ==
    [i \in 1..ScenarioDays |->
        [FED_FUNDS |-> rate[i], TREASURY_10Y |-> yield[i], VIX |-> vix[i]]]

\* policy rate 0.25 before day 70 and 0.75 from day 70 on, quiet volatility,
\* flat long yield
RatePanels ==
    {MakePanel(Step(JumpDay, 25, 75), Flat(y), Flat(v)) :
        y \in {150, 400}, v \in {10, 15, 20, 24}}

\* volatility at a level below 25 before day 150 and 40 on day 150, then either
\* back at the level or held at 40; any of several rate and yield paths
RatePaths == {Flat(25), Step(JumpDay, 25, 75), Step(SpikeDay, 75, 25)}
YieldPaths == {Flat(150), Step(SpikeDay, 150, 250), Step(SpikeDay - 1, 250, 150)}
VolPaths ==
    {Bump(SpikeDay, last, v, 40) :
        last \in {SpikeDay, ScenarioDays}, v \in {10, 15, 20, 21, 22, 24}}
VolPanels == {MakePanel(r, y, v) : r \in RatePaths, y \in YieldPaths, v \in VolPaths}

ScenarioInit ==
    /\ config = ShippedConfig
    /\ classifier \in {NewClassifier(p) : p \in RatePanels \cup VolPanels}
    /\ classifier_t = None
    /\ analyzer = None
    /\ shock_analyzer = None
    /\ result = None
    /\ handed = {}
    /\ main = None

ScenarioNext == ClassifyRegimes

SpecScenario == ScenarioInit /\ [][ScenarioNext]_vars

\* the panel is a rate scenario: the policy rate steps from 25 to 75 at JumpDay,
\* volatility stays below the stress threshold, the long yield is flat
IsRateScenario ==
    /\ Len(Panel) = ScenarioDays
    /\ \A i \in 1..ScenarioDays :
        /\ Panel[i].FED_FUNDS = (IF i - 1 < JumpDay THEN 25 ELSE 75)
        /\ Panel[i].VIX < config.VIX_STRESS_THRESHOLD
        /\ Panel[i].TREASURY_10Y = Panel[1].TREASURY_10Y

\* the panel is a volatility scenario: below the stress threshold before
\* SpikeDay, 40 on SpikeDay
IsVolScenario ==
    /\ Len(Panel) = ScenarioDays
    /\ \A i \in 1..DayRow(SpikeDay) - 1 : Panel[i].VIX < config.VIX_STRESS_THRESHOLD
    /\ Panel[DayRow(SpikeDay)].VIX = 40

\* C4 as stated: on the rate scenario the label of day 133 (= 70 + 63) is
\* TIGHTENING.
C4_Original ==
    (Labelled /\ IsRateScenario) =>
        Labels[DayRow(JumpDay + config.QUARTERLY_LOOKBACK)].REGIME = "TIGHTENING"

\* C4 amended: on the rate scenario the days from the jump to day 132
\* (= 70 + 63 - 1) are TIGHTENING, and day 133, whose trailing change compares
\* two post-jump values, is NORMAL.
C4_TighteningWindow ==
    (Labelled /\ IsRateScenario) =>
        /\ \A d \in JumpDay..(JumpDay + config.QUARTERLY_LOOKBACK - 1) :
               Labels[DayRow(d)].REGIME = "TIGHTENING"
        /\ Labels[DayRow(JumpDay + config.QUARTERLY_LOOKBACK)].REGIME = "NORMAL"

C4_Witness ==
    /\ Labelled
    /\ IsRateScenario
    /\ Labels[DayRow(JumpDay + config.QUARTERLY_LOOKBACK - 1)].REGIME = "TIGHTENING"

\* sum of the volatility index over the averaging window ending on day d
VolWindowSum(d) == SumRange(Panel, "VIX", DayRow(d) - config.VIX_LOOKBACK + 1, DayRow(d))

\* C5 as stated: on the volatility scenario the label of day 150 is STRESS
\* whatever the rate and yield series are.
C5_Original ==
    (Labelled /\ IsVolScenario) => Labels[DayRow(SpikeDay)].REGIME = "STRESS"

\* C5 amended: day 150 is STRESS exactly when the 5-day average ending on day
\* 150 exceeds 25 (the sum of the window exceeds 125); when volatility is held
\* at 40 through day 154 (= 150 + 5 - 1), day 154 is STRESS; both whatever the
\* rate and yield series are.
C5_StressOnceAverageExceeds ==
    (Labelled /\ IsVolScenario) =>
        /\ Labels[DayRow(SpikeDay)].REGIME = "STRESS"
               <=> VolWindowSum(SpikeDay) > config.VIX_STRESS_THRESHOLD * config.VIX_LOOKBACK
        /\ (\A d \in SpikeDay..(SpikeDay + config.VIX_LOOKBACK - 1) : Panel[DayRow(d)].VIX = 40)
               => Labels[DayRow(SpikeDay + config.VIX_LOOKBACK - 1)].REGIME = "STRESS"

\* a labelled volatility scenario whose spike day is not STRESS while a rate
\* move is under way, and whose volatility stays at 40
C5_Witness ==
    /\ Labelled
    /\ IsVolScenario
    /\ Labels[DayRow(SpikeDay)].REGIME = "TIGHTENING"
    /\ Panel[DayRow(SpikeDay + config.VIX_LOOKBACK - 1)].VIX = 40
    /\ Labels[DayRow(SpikeDay + config.VIX_LOOKBACK - 1)].REGIME = "STRESS"

----------------------------------------------------------------------------
(* RateShockAnalyzer.  A frame row carries its index value as `date`, a     *)
(* calendar day number; (a - b).days is the difference of day numbers.      *)

\* df.columns
Columns(df) == IF Len(df) = 0 THEN {} ELSE DOMAIN df[1]

\* f'{ticker}_ret'
RetCol(ticker) ==
    CASE ticker = "SPY" -> "SPY_ret" [] ticker = "TLT" -> "TLT_ret" [] ticker = "GLD" -> "GLD_ret"

\* the smallest accepted spacing is exceeded: (date - last_shock).days > 180
MIN_SHOCK_SPACING_DAYS == 180
FarEnoughInclusive(date, last_shock) == date - last_shock >= MIN_SHOCK_SPACING_DAYS
FarEnough(date, last_shock) == date - last_shock > MIN_SHOCK_SPACING_DAYS

\* shock_candidates: the index values of the rows whose trailing yield change
\* exceeds the threshold, in index order (NaN > threshold is False)
\* (candidates taken at >= threshold)
ShockCandidatesAtThreshold(df, cfg) ==
    LET hit(i) == LET chg == Diff(df, "TREASURY_10Y", cfg.SHOCK_LOOKBACK, i)
                  IN  notna(chg) /\ chg.v >= cfg.SHOCK_YIELD_THRESHOLD
    IN  SelectSeq([i \in 1..Len(df) |-> [date |-> df[i].date, hit |-> hit(i)]],
                  LAMBDA r : r.hit)
ShockCandidates(df, cfg) ==
    LET hit(i) == LET chg == Diff(df, "TREASURY_10Y", cfg.SHOCK_LOOKBACK, i)
                  IN  notna(chg) /\ chg.v > cfg.SHOCK_YIELD_THRESHOLD
    IN  SelectSeq([i \in 1..Len(df) |-> [date |-> df[i].date, hit |-> hit(i)]],
                  LAMBDA r : r.hit)

\* the filter loop over the candidates from the k-th on, carrying
\* filtered_shocks and last_shock
RECURSIVE FilterShocks(_, _, _, _)
FilterShocks(cands, k, filtered_shocks, last_shock) ==
    IF k > Len(cands) THEN filtered_shocks
    ELSE IF last_shock = None \/ FarEnough(cands[k].date, last_shock.val)
         THEN FilterShocks(cands, k + 1, Append(filtered_shocks, cands[k].date),
                           Some(cands[k].date))
         ELSE FilterShocks(cands, k + 1, filtered_shocks, last_shock)

\* the list identify_shocks stores and returns
identify_shocks(df, cfg) == FilterShocks(ShockCandidates(df, cfg), 1, <<>>, None)

\* df.index.get_loc(shock_date): the row of the date, KeyError when absent
InIndex(df, date) == \E i \in 1..Len(df) : df[i].date = date
get_loc(df, date) == CHOOSE i \in 1..Len(df) : df[i].date = date

\* not (shock_idx + horizon >= len(df)), on row positions: row i is position i - 1
HorizonFitsShort(df, i, horizon) == ~((i - 1) + horizon >= Len(df) - 1)
HorizonFits(df, i, horizon) == ~((i - 1) + horizon >= Len(df))

\* (end_price / start_price - 1) * 100; exact for the price levels of the model,
\* where the start price divides 100 * (end - start)
ForwardReturn(start_price, end_price) == ((end_price - start_price) * 100) \div start_price

\* the response dict of one shock date
Response(df, cfg, i) ==
    LET j == i + cfg.SHOCK_HORIZON
        base == [shock_date  |-> df[i].date,
                 start_yield |-> df[i].TREASURY_10Y,
                 end_yield   |-> df[j].TREASURY_10Y]
        tickers == {cfg.TICKERS[k] : k \in 1..Len(cfg.TICKERS)} \cap Columns(df)
        rets == [c \in {RetCol(t) : t \in tickers} |->
                    LET t == CHOOSE t \in tickers : RetCol(t) = c
                    IN  ForwardReturn(df[i][t], df[j][t])]
    IN  base @@ rets

\* the loop of measure_shock_response over the dates from the k-th on; a date
\* that is not in the index raises KeyError inside the try and is skipped
RECURSIVE MeasureLoop(_, _, _, _, _)
\* (the same loop left at the first date that fails, as without the try)
MeasureLoopStopsAtFailure(df, cfg, dates, k, responses) ==
    IF k > Len(dates) THEN responses
    ELSE IF ~InIndex(df, dates[k]) THEN responses
    ELSE LET i == get_loc(df, dates[k])
         IN  IF ~HorizonFits(df, i, cfg.SHOCK_HORIZON)
             THEN MeasureLoop(df, cfg, dates, k + 1, responses)
             ELSE MeasureLoop(df, cfg, dates, k + 1, Append(responses, Response(df, cfg, i)))
MeasureLoop(df, cfg, dates, k, responses) ==
    IF k > Len(dates) THEN responses
    ELSE IF ~InIndex(df, dates[k]) THEN MeasureLoop(df, cfg, dates, k + 1, responses)
    ELSE LET i == get_loc(df, dates[k])
         IN  IF ~HorizonFits(df, i, cfg.SHOCK_HORIZON)
             THEN MeasureLoop(df, cfg, dates, k + 1, responses)
             ELSE IF i + cfg.SHOCK_HORIZON > Len(df)
             THEN MeasureLoop(df, cfg, dates, k + 1, responses)  \* IndexError, caught
             ELSE MeasureLoop(df, cfg, dates, k + 1, Append(responses, Response(df, cfg, i)))

\* pd.DataFrame(responses)
measure_shock_response(df, cfg, dates) == MeasureLoop(df, cfg, dates, 1, <<>>)

\* RateShockAnalyzer(data, config)
NewShockAnalyzer(data) == [data |-> data, shock_dates |-> None, shock_responses |-> None]

----------------------------------------------------------------------------
(* RateShockAnalyzer.portfolio_stress_test.  Weights are in percent and      *)
(* returns in percent, so a portfolio return is in hundredths of a percent;  *)
(* percentiles are kept times 100, the mean as (sum, count), the standard    *)
(* deviation by its square (num / den).                                      *)

\* sum(weights.get(ticker, 0) * row.get(f'{ticker}_ret', 0) for ticker in tickers)
RECURSIVE WeightedSum(_, _, _)
WeightedSum(tickers, weights, row) ==
    IF tickers = {} THEN 0
    ELSE LET t == CHOOSE x \in tickers : TRUE
         IN  weights[t] * (IF RetCol(t) \in DOMAIN row THEN row[RetCol(t)] ELSE 0)
                 + WeightedSum(tickers \ {t}, weights, row)

\* (a sum of the event returns that leaves the weights out)
PortfolioReturnUnweighted(weights, row) ==
    WeightedSum(DOMAIN weights, [t \in DOMAIN weights |-> 1], row)
\* the portfolio return of one response row, over weights.keys()
PortfolioReturn(weights, row) == WeightedSum(DOMAIN weights, weights, row)

\* np.percentile(a, q), linear interpolation, times 100; a is not empty
Percentile100(a, q) ==
    LET sorted == SortSeq(a, LAMBDA x, y : x < y)
        pos == (Len(a) - 1) * q
        lo == pos \div 100
        frac == pos % 100
    IN  IF frac = 0 THEN sorted[lo + 1] * 100
        ELSE sorted[lo + 1] * 100 + frac * (sorted[lo + 2] - sorted[lo + 1])

SeqSum(a) == SumRange([k \in 1..Len(a) |-> [x |-> a[k]]], "x", 1, Len(a))
SeqSumSq(a) == SumRange([k \in 1..Len(a) |-> [x |-> a[k] * a[k]]], "x", 1, Len(a))
SeqMin(a) == CHOOSE x \in {a[k] : k \in 1..Len(a)} : \A k \in 1..Len(a) : x <= a[k]
SeqMax(a) == CHOOSE x \in {a[k] : k \in 1..Len(a)} : \A k \in 1..Len(a) : x >= a[k]

\* the summary dict of a non-empty array of portfolio returns
Summary(portfolio_rets) ==
    [median100 |-> Percentile100(portfolio_rets, 50),
     p10x100   |-> Percentile100(portfolio_rets, 10),
     p90x100   |-> Percentile100(portfolio_rets, 90),
     mean      |-> [num |-> SeqSum(portfolio_rets), den |-> Len(portfolio_rets)],
     std_sq    |-> [num |-> Len(portfolio_rets) * SeqSumSq(portfolio_rets)
                              - SeqSum(portfolio_rets) * SeqSum(portfolio_rets),
                    den |-> Len(portfolio_rets) * Len(portfolio_rets)],
     min       |-> SeqMin(portfolio_rets),
     max       |-> SeqMax(portfolio_rets),
     count     |-> Len(portfolio_rets)]

\* the detailed table: one row per percentile, the tracked assets that have a
\* return column and the portfolio
DetailedTable(cfg, responses, portfolio_rets) ==
    LET cols == {t \in {cfg.TICKERS[k] : k \in 1..Len(cfg.TICKERS)} :
                    RetCol(t) \in Columns(responses)}
    IN  [pct \in {10, 50, 90} |->
            [assets    |-> [t \in cols |->
                              Percentile100([k \in 1..Len(responses) |-> responses[k][RetCol(t)]], pct)],
             Portfolio |-> Percentile100(portfolio_rets, pct)]]

\* the guard on the stored responses, applied only when no responses are passed
StoredGuardRaisesNoneOnly(given, stored) == given = None /\ stored = None
StoredGuardRaises(given, stored) ==
    given = None /\ (stored = None \/ Len(stored.val) = 0)

\* the numpy reducers on the array of portfolio returns.  Of an empty array
\* np.median, np.mean and np.std are NaN; np.percentile is NaN or raises
\* IndexError (by numpy version); np.min raises ValueError.  So an empty array
\* never gets past line 147.
StatisticsReturnNaN(cfg, responses, portfolio_rets) ==
    IF Len(portfolio_rets) = 0
    THEN {Returned([summary |-> [median100 |-> NaN, p10x100 |-> NaN, p90x100 |-> NaN,
                                 mean |-> NaN, std_sq |-> NaN, min |-> NaN, max |-> NaN,
                                 count |-> 0],
                    table |-> [pct \in {10, 50, 90} |-> [assets |-> <<>>, Portfolio |-> NaN]]])}
    ELSE {Returned([summary |-> Summary(portfolio_rets),
                    table   |-> DetailedTable(cfg, responses, portfolio_rets)])}
Statistics(cfg, responses, portfolio_rets) ==
    IF Len(portfolio_rets) = 0
    THEN {Raised("IndexError", "np.percentile"), Raised("ValueError", "np.min")}
    ELSE {Returned([summary |-> Summary(portfolio_rets),
                    table   |-> DetailedTable(cfg, responses, portfolio_rets)])}

\* the outcomes of portfolio_stress_test(weights, shock_responses)
portfolio_stress_test(self, cfg, weights, given) ==
    IF StoredGuardRaises(given, self.shock_responses)
    THEN {Raised("ValueError", "No shock responses available")}
    ELSE LET responses == IF given = None THEN self.shock_responses.val ELSE given.val
             w == IF weights = None THEN cfg.PORTFOLIO_WEIGHTS ELSE weights.val
             portfolio_rets == [k \in 1..Len(responses) |-> PortfolioReturn(w, responses[k])]
         IN  Statistics(cfg, responses, portfolio_rets)

----------------------------------------------------------------------------
(* Specification: one RateShockAnalyzer on a dated panel *)

MaxShockDays == 4

\* calendar days between consecutive rows, yield moves between consecutive
\* rows, and the price path of the one tracked asset the panel carries
GapDays == {90, 181}
YieldSteps == {0, 2}
PricePaths(n) ==
    {[i \in 1..n |-> 1],
     [i \in 1..n |-> IF i % 2 = 1 THEN 1 ELSE 2],
     [i \in 1..n |-> IF i <= 2 THEN 1 ELSE 2],
     [i \in 1..n |-> IF i <= 2 THEN 2 ELSE 1]}

RECURSIVE Cumulative(_, _)
Cumulative(steps, i) == IF i <= 1 THEN 0 ELSE steps[i - 1] + Cumulative(steps, i - 1)

ShockPanels ==
    {[i \in 1..MaxShockDays |->
        [date |-> Cumulative(gaps, i), TREASURY_10Y |-> Cumulative(steps, i), SPY |-> prices[i]]] :
        gaps \in [1..(MaxShockDays - 1) -> GapDays],
        steps \in [1..(MaxShockDays - 1) -> YieldSteps],
        prices \in PricePaths(MaxShockDays)}

ShockConfigs ==
    [SHOCK_LOOKBACK        : {1, 2},
     SHOCK_YIELD_THRESHOLD : {1, 2},
     SHOCK_HORIZON         : {1, 2},
     TICKERS               : {<<"SPY", "TLT", "GLD">>},
     PORTFOLIO_WEIGHTS     : {[SPY |-> 60, TLT |-> 30, GLD |-> 10]}]

\* a date that is in no panel
AbsentDate == -1

\* the explicit shock_dates arguments tried: none at all, and a date missing
\* from the index followed by every date of the panel
GivenDates(df) == {<<>>, <<AbsentDate>> \o [i \in 1..Len(df) |-> df[i].date]}

ShockInit ==
    /\ config \in ShockConfigs
    /\ shock_analyzer \in {NewShockAnalyzer(p) : p \in ShockPanels}
    /\ classifier = None
    /\ classifier_t = None
    /\ analyzer = None
    /\ result = None
    /\ handed = {}
    /\ main = None

\* shock_analyzer.identify_shocks()
IdentifyShocks ==
    /\ shock_analyzer # None
    /\ shock_analyzer' = [shock_analyzer EXCEPT
                            !.shock_dates = Some(identify_shocks(shock_analyzer.data, config))]
    /\ result' = Call("identify_shocks", None, Returned("shock_dates"))
    /\ UNCHANGED <<config, main, classifier, classifier_t, analyzer, handed>>

\* shock_analyzer.measure_shock_response(): the stored dates, or ValueError
\* when identify_shocks has not run
MeasureShockResponse ==
    /\ shock_analyzer # None
    /\ IF shock_analyzer.shock_dates = None
       THEN /\ result' = Call("measure_shock_response", None,
                            Raised("ValueError", "Must run identify_shocks() first"))
            /\ UNCHANGED shock_analyzer
       ELSE /\ shock_analyzer' = [shock_analyzer EXCEPT !.shock_responses =
                    Some(measure_shock_response(shock_analyzer.data, config,
                                                shock_analyzer.shock_dates.val))]
            /\ result' = Call("measure_shock_response", None, Returned("shock_responses"))
    /\ UNCHANGED <<config, main, classifier, classifier_t, analyzer, handed>>

\* shock_analyzer.measure_shock_response(shock_dates)
MeasureShockResponseGiven ==
    /\ shock_analyzer # None
    /\ \E dates \in GivenDates(shock_analyzer.data) :
         /\ shock_analyzer' = [shock_analyzer EXCEPT !.shock_responses =
                Some(measure_shock_response(shock_analyzer.data, config, dates))]
         /\ result' = Call("measure_shock_response", Some(dates), Returned("shock_responses"))
    /\ UNCHANGED <<config, main, classifier, classifier_t, analyzer, handed>>

\* shock_analyzer.portfolio_stress_test(): the stored responses
PortfolioStressTest ==
    /\ shock_analyzer # None
    /\ \E outcome \in portfolio_stress_test(shock_analyzer, config, None, None) :
         result' = Call("portfolio_stress_test", None, outcome)
    /\ UNCHANGED <<config, main, classifier, classifier_t, analyzer, shock_analyzer, handed>>

\* shock_analyzer.portfolio_stress_test(shock_responses=...): an empty frame,
\* or the frame measure_shock_response returned
PortfolioStressTestGiven ==
    /\ shock_analyzer # None
    /\ \E given \in {Some(<<>>)} \cup
                    (IF shock_analyzer.shock_responses = None THEN {}
                     ELSE {shock_analyzer.shock_responses}) :
         \E outcome \in portfolio_stress_test(shock_analyzer, config, None, given) :
            result' = Call("portfolio_stress_test", given, outcome)
    /\ UNCHANGED <<config, main, classifier, classifier_t, analyzer, shock_analyzer, handed>>

\* the weight maps passed explicitly: one asset of the responses alone, and
\* two assets the responses have no return of
GivenWeights == {[SPY |-> 100], [TLT |-> 50, GLD |-> 50]}

\* shock_analyzer.portfolio_stress_test(weights=...): the stored responses
PortfolioStressTestWeights ==
    /\ shock_analyzer # None
    /\ \E weights \in GivenWeights :
         \E outcome \in portfolio_stress_test(shock_analyzer, config, Some(weights), None) :
            result' = Call("portfolio_stress_test", None, outcome) @@ [weights |-> weights]
    /\ UNCHANGED <<config, main, classifier, classifier_t, analyzer, shock_analyzer, handed>>

ShockNext ==
    \/ IdentifyShocks
    \/ MeasureShockResponse
    \/ MeasureShockResponseGiven
    \/ PortfolioStressTest
    \/ PortfolioStressTestGiven
    \/ PortfolioStressTestWeights

SpecShock == ShockInit /\ [][ShockNext]_vars

----------------------------------------------------------------------------
(* Claims about the RateShockAnalyzer *)

ShockPanel == shock_analyzer.data
Horizon == config.SHOCK_HORIZON

\* C6: any two distinct events of the list identify_shocks returns, consecutive
\* or not, lie strictly more than 180 calendar days apart.
C6_ShockSpacing ==
    (shock_analyzer # None /\ shock_analyzer.shock_dates # None) =>
        LET events == shock_analyzer.shock_dates.val
        IN  \A a, b \in 1..Len(events) :
                a # b => (events[a] - events[b] > 180 \/ events[b] - events[a] > 180)

\* three accepted events: a pair that is not consecutive
C6_Witness ==
    /\ shock_analyzer # None
    /\ shock_analyzer.shock_dates # None
    /\ Len(shock_analyzer.shock_dates.val) >= 3

\* the last call was measure_shock_response and it had events to measure
MeasuredEvents ==
    /\ result # None
    /\ result.call = "measure_shock_response"
    /\ (result.arg # None \/ shock_analyzer.shock_dates # None)
EventsOfCall == IF result.arg # None THEN result.arg.val ELSE shock_analyzer.shock_dates.val

\* the row of a date of the panel
RowOf(date) == CHOOSE i \in 1..Len(ShockPanel) : ShockPanel[i].date = date

\* C7: measure_shock_response does not raise; it yields a response for an
\* event at row position i exactly when i + horizon is at most the last row
\* position, and each response's end values are those of row i + horizon,
\* a row of the panel.
C7_ResponseHorizon ==
    MeasuredEvents =>
        LET events == EventsOfCall
            responses == shock_analyzer.shock_responses.val
            fitting == {k \in 1..Len(events) :
                          /\ \E i \in 1..Len(ShockPanel) : ShockPanel[i].date = events[k]
                          /\ (RowOf(events[k]) - 1) + Horizon <= Len(ShockPanel) - 1}
        IN  /\ ~result.outcome.raised
            /\ Len(responses) = Cardinality(fitting)
            /\ {responses[k].shock_date : k \in 1..Len(responses)}
                   = {events[k] : k \in fitting}
            /\ \A k \in 1..Len(responses) :
                   LET i == RowOf(responses[k].shock_date)
                   IN  /\ i + Horizon <= Len(ShockPanel)
                       /\ responses[k].start_yield = ShockPanel[i].TREASURY_10Y
                       /\ responses[k].end_yield = ShockPanel[i + Horizon].TREASURY_10Y

\* the detected shocks were measured: one whose horizon ends exactly on the
\* last row gave a response, one whose horizon runs past it was discarded
C7_Witness ==
    /\ MeasuredEvents
    /\ result.arg = None
    /\ \E k \in 1..Len(shock_analyzer.shock_responses.val) :
          RowOf(shock_analyzer.shock_responses.val[k].shock_date) + Horizon = Len(ShockPanel)
    /\ \E k \in 1..Len(EventsOfCall) : RowOf(EventsOfCall[k]) + Horizon > Len(ShockPanel)

\* the events of the call that are rows of the panel with `horizon` rows after
\* them, in the order given
Measurable(events) ==
    SelectSeq(events, LAMBDA e : /\ \E i \in 1..Len(ShockPanel) : ShockPanel[i].date = e
                                 /\ RowOf(e) + Horizon <= Len(ShockPanel))

\* C25: a shock date that fails (one that is not in the panel index) is
\* skipped and nothing is raised: the stored responses are then exactly the
\* responses of the other dates that have enough forward data, in the order
\* given, each with its own forward return, and none for the failed date.
C25_FailedDateSkipped ==
    (MeasuredEvents /\ result.arg # None
        /\ \E k \in 1..Len(EventsOfCall) : ~InIndex(ShockPanel, EventsOfCall[k])) =>
        LET measurable == Measurable(EventsOfCall)
            responses == shock_analyzer.shock_responses.val
        IN  /\ ~result.outcome.raised
            /\ shock_analyzer.shock_responses # None
            /\ Len(responses) = Len(measurable)
            /\ \A k \in 1..Len(responses) :
                   /\ responses[k].shock_date = measurable[k]
                   /\ responses[k].shock_date # AbsentDate
                   /\ responses[k].SPY_ret * ShockPanel[RowOf(measurable[k])].SPY
                         = 100 * (ShockPanel[RowOf(measurable[k]) + Horizon].SPY
                                    - ShockPanel[RowOf(measurable[k])].SPY)

\* the dates passed start with one that is not in the index; two later dates
\* gave responses and the last date, without forward data, gave none
C25_Witness ==
    /\ MeasuredEvents
    /\ result.arg # None
    /\ Len(EventsOfCall) > 0
    /\ ~InIndex(ShockPanel, EventsOfCall[1])
    /\ ~result.outcome.raised
    /\ Len(shock_analyzer.shock_responses.val) >= 2
    /\ Len(shock_analyzer.shock_responses.val) < Len(EventsOfCall) - 1

\* the last call was portfolio_stress_test
StressTested == result # None /\ result.call = "portfolio_stress_test"
StoredResponsesEmpty ==
    shock_analyzer.shock_responses # None /\ Len(shock_analyzer.shock_responses.val) = 0

StressResponses == IF result.arg = None THEN shock_analyzer.shock_responses.val
                   ELSE result.arg.val
StressWeights == IF "weights" \in DOMAIN result THEN result.weights
                 ELSE config.PORTFOLIO_WEIGHTS
\* weight x event return of an asset in the k-th response; zero for an asset
\* outside the weight map and for one the responses have no return of
EventContribution(asset, k) ==
    IF asset \in DOMAIN StressWeights /\ RetCol(asset) \in DOMAIN StressResponses[k]
    THEN StressWeights[asset] * StressResponses[k][RetCol(asset)]
    ELSE 0
EventPortfolioReturn(k) ==
    EventContribution("SPY", k) + EventContribution("TLT", k) + EventContribution("GLD", k)
RECURSIVE EventPortfolioTotal(_)
EventPortfolioTotal(k) ==
    IF k = 0 THEN 0 ELSE EventPortfolioReturn(k) + EventPortfolioTotal(k - 1)

\* C22: a stress test that returns has one portfolio return per response, the
\* sum over the weight map of weight x the asset's event return with a missing
\* return counted as zero: the summary's count is the number of responses, its
\* mean, minimum and maximum are those of these sums.
C22_StressPortfolioReturns ==
    (StressTested /\ ~result.outcome.raised) =>
        LET summary == result.outcome.value.summary
            n == Len(StressResponses)
        IN  /\ summary.count = n
            /\ summary.mean = [num |-> EventPortfolioTotal(n), den |-> n]
            /\ \E k \in 1..n : summary.min = EventPortfolioReturn(k)
            /\ \E k \in 1..n : summary.max = EventPortfolioReturn(k)
            /\ \A k \in 1..n : /\ summary.min <= EventPortfolioReturn(k)
                                /\ EventPortfolioReturn(k) <= summary.max

\* two responses with different returns under the configured weights, of
\* which TLT and GLD have no return in the responses
C22_Witness ==
    /\ StressTested
    /\ ~result.outcome.raised
    /\ "weights" \notin DOMAIN result
    /\ Len(StressResponses) = 2
    /\ result.outcome.value.summary.count = 2
    /\ result.outcome.value.summary.min = 60 * StressResponses[1].SPY_ret
    /\ result.outcome.value.summary.max = 60 * StressResponses[2].SPY_ret
    /\ result.outcome.value.summary.min < result.outcome.value.summary.max

----------------------------------------------------------------------------
(* Config.validate.  Portfolio weights are integers in units of 5e-7, so     *)
(* that 1.0 is 2 000 000 units and the tolerance 1e-6 is 2 units; the sum    *)
(* is exact, where Python adds floats.                                       *)

ONE == 2000000
WEIGHT_TOLERANCE == 2

Abs(x) == IF x < 0 THEN -x ELSE x

\* sum(cls.PORTFOLIO_WEIGHTS.values())
RECURSIVE WeightTotal(_, _)
WeightTotal(weights, keys) ==
    IF keys = {} THEN 0
    ELSE LET k == CHOOSE x \in keys : TRUE
         IN  weights[k] + WeightTotal(weights, keys \ {k})

\* the four assertions, in order; the first that fails raises AssertionError
validateNoSignCheck(cfg) ==
    IF ~(cfg.RATE_CHANGE_THRESHOLD > 0)
    THEN Raised("AssertionError", "Rate threshold must be positive")
    ELSE IF ~(cfg.VIX_STRESS_THRESHOLD > 0)
    THEN Raised("AssertionError", "VIX threshold must be positive")
    ELSE IF ~(Abs(WeightTotal(cfg.PORTFOLIO_WEIGHTS, DOMAIN cfg.PORTFOLIO_WEIGHTS) - ONE)
                < WEIGHT_TOLERANCE)
    THEN Raised("AssertionError", "Weights must sum to 1")
    ELSE Returned(None)
validate(cfg) ==
    IF ~(cfg.RATE_CHANGE_THRESHOLD > 0)
    THEN Raised("AssertionError", "Rate threshold must be positive")
    ELSE IF ~(cfg.VIX_STRESS_THRESHOLD > 0)
    THEN Raised("AssertionError", "VIX threshold must be positive")
    ELSE IF ~(Abs(WeightTotal(cfg.PORTFOLIO_WEIGHTS, DOMAIN cfg.PORTFOLIO_WEIGHTS) - ONE)
                < WEIGHT_TOLERANCE)
    THEN Raised("AssertionError", "Weights must sum to 1")
    ELSE IF ~(\A k \in DOMAIN cfg.PORTFOLIO_WEIGHTS : cfg.PORTFOLIO_WEIGHTS[k] >= 0)
    THEN Raised("AssertionError", "Weights must be non-negative")
    ELSE Returned(None)

\* the configurations tried: thresholds around zero; weights 0.6 / 0.3 / 0.1
\* and neighbours: 1.2 with -0.2, 0.55 and 0.25 (sums of 0.95 and less), and
\* third weights 5e-7 and 1e-6 either side of 0.1; the other options as
\* shipped (the shock threshold in hundredths) or zero
ValidateConfigs ==
    [RATE_CHANGE_THRESHOLD : {-20, 0, 20},
     VIX_STRESS_THRESHOLD  : {-25, 0, 25},
     VIX_LOOKBACK          : {0, 5},
     QUARTERLY_LOOKBACK    : {0, 63},
     SHOCK_YIELD_THRESHOLD : {0, 70},
     SHOCK_HORIZON         : {0, 63},
     SHOCK_LOOKBACK        : {0, 21},
     PORTFOLIO_WEIGHTS     :
        [SPY : {1200000, 2400000, 1100000},
         TLT : {600000, -400000, 500000},
         GLD : {200000, 199998, 199999, 200001, 200002, 0}]]

ConfigInit ==
    /\ config \in ValidateConfigs
    /\ classifier = None
    /\ classifier_t = None
    /\ analyzer = None
    /\ shock_analyzer = None
    /\ result = None
    /\ handed = {}
    /\ main = None

\* Config.validate()
Validate ==
    /\ result' = Call("validate", None, validate(config))
    /\ UNCHANGED <<config, main, classifier, classifier_t, analyzer, shock_analyzer, handed>>

ConfigNext == Validate

SpecConfig == ConfigInit /\ [][ConfigNext]_vars

Validated == result # None /\ result.call = "validate"
WeightSum == config.PORTFOLIO_WEIGHTS.SPY + config.PORTFOLIO_WEIGHTS.TLT + config.PORTFOLIO_WEIGHTS.GLD
WeightsNonNegative ==
    config.PORTFOLIO_WEIGHTS.SPY >= 0 /\ config.PORTFOLIO_WEIGHTS.TLT >= 0
        /\ config.PORTFOLIO_WEIGHTS.GLD >= 0
\* the sum is within 1e-6 of 1
WeightSumNearOne == WeightSum > ONE - WEIGHT_TOLERANCE /\ WeightSum < ONE + WEIGHT_TOLERANCE
ThresholdsPositive == config.RATE_CHANGE_THRESHOLD > 0 /\ config.VIX_STRESS_THRESHOLD > 0

\* C9: validate fails for every weight map whose sum differs from 1 by 1e-6
\* or more or that holds a negative weight; for non-negative weights summing
\* to 1 within 1e-6 no weight assertion fails, and validate succeeds (the two
\* thresholds being positive, as shipped).
C9_WeightValidation ==
    Validated =>
        /\ ~(WeightSumNearOne /\ WeightsNonNegative) => result.outcome.raised
        /\ (WeightSumNearOne /\ WeightsNonNegative) =>
              /\ ThresholdsPositive => result.outcome = Returned(None)
              /\ result.outcome.raised =>
                    result.outcome.at \in {"Rate threshold must be positive",
                                           "VIX threshold must be positive"}

\* the stated constraints of the seven numeric options
OptionConstraints ==
    /\ config.RATE_CHANGE_THRESHOLD > 0
    /\ config.VIX_STRESS_THRESHOLD > 0
    /\ config.SHOCK_YIELD_THRESHOLD > 0
    /\ config.VIX_LOOKBACK >= 1
    /\ config.QUARTERLY_LOOKBACK >= 1
    /\ config.SHOCK_HORIZON >= 1
    /\ config.SHOCK_LOOKBACK >= 1

\* C23 as stated: validate rejects every configuration that violates one of
\* the option constraints (the three thresholds positive, the four day counts
\* at least 1).
C23_Original ==
    (Validated /\ ~OptionConstraints) => result.outcome.raised

\* validate passed a configuration whose shock threshold, shock horizon and
\* lookbacks are all zero
C23_Witness ==
    /\ Validated
    /\ result.outcome = Returned(None)
    /\ config.SHOCK_YIELD_THRESHOLD = 0
    /\ config.SHOCK_HORIZON = 0
    /\ config.SHOCK_LOOKBACK = 0
    /\ config.VIX_LOOKBACK = 0
    /\ config.QUARTERLY_LOOKBACK = 0

\* what validate does reject among them: a rate or volatility threshold that
\* is not positive
C23_TwoThresholdsChecked ==
    Validated =>
        /\ ~ThresholdsPositive => result.outcome.raised
        /\ (ThresholdsPositive /\ WeightSumNearOne /\ WeightsNonNegative)
              => result.outcome = Returned(None)

\* the weights 0.6 / 0.3 / 0.1 were validated and passed
C9_Witness ==
    /\ Validated
    /\ config.PORTFOLIO_WEIGHTS = [SPY |-> 1200000, TLT |-> 600000, GLD |-> 200000]
    /\ result.outcome = Returned(None)

----------------------------------------------------------------------------
(* PerformanceAnalyzer.  A daily return is kept in units of 1 / RET_UNITS    *)
(* (exact for the price levels of the model: the previous price divides      *)
(* RET_UNITS * (price - previous price)).  A standard deviation is not an    *)
(* integer, so a record keeps, of the volatility and the Sharpe ratio, what  *)
(* integers decide exactly: whether the rounded field is 0, and its sign.    *)

RET_UNITS == 2
ANNUALIZATION_FACTOR == 252
MIN_REGIME_DAYS == 10
MIN_OBSERVATIONS == 5

\* f'{ticker}_RET'
ReturnCol(ticker) ==
    CASE ticker = "SPY" -> "SPY_RET" [] ticker = "TLT" -> "TLT_RET" [] ticker = "GLD" -> "GLD_RET"

\* df[ticker].pct_change() at row i: NaN on the first row and wherever the
\* price or the previous price is missing.  The missing prices of the model
\* are leading ones (a ticker listed after the panel starts), which no fill
\* method of pct_change reaches.
pct_change(df, ticker, i) ==
    IF i = 1 THEN NaN
    ELSE IF ~notna(df[i][ticker]) \/ ~notna(df[i - 1][ticker]) THEN NaN
    ELSE Num(((df[i][ticker].v - df[i - 1][ticker].v) * RET_UNITS) \div df[i - 1][ticker].v)

TickerSet(cfg) == {cfg.TICKERS[k] : k \in 1..Len(cfg.TICKERS)}

\* the frame calculate_returns stores and returns: a return column for every
\* configured ticker that has a price column
calculate_returns(df, cfg) ==
    LET tickers == TickerSet(cfg) \cap Columns(df)
    IN  [i \in 1..Len(df) |->
            df[i] @@ [c \in {ReturnCol(t) : t \in tickers} |->
                        pct_change(df, CHOOSE t \in tickers : ReturnCol(t) = c, i)]]

RECURSIVE GCD(_, _)
GCD(a, b) == IF b = 0 THEN a ELSE GCD(b, a % b)
\* num / den in lowest terms, den > 0
Ratio(num, den) ==
    LET g == GCD(Abs(num), den) IN [num |-> num \div g, den |-> den \div g]
RatioLess(x, y) == x.num * y.den < y.num * x.den

\* round(num / den) to the nearest integer, halves to even (np.round); den > 0
RoundHalfEven(num, den) ==
    LET q == num \div den
        r == num - q * den
    IN  IF 2 * r < den THEN q
        ELSE IF 2 * r > den THEN q + 1
        ELSE IF q % 2 = 0 THEN q ELSE q + 1

\* least integer not below a / b, for a >= 0 and b > 0
CeilDiv(a, b) == (a + b - 1) \div b

Sign(x) == IF x > 0 THEN 1 ELSE IF x < 0 THEN -1 ELSE 0

\* regime_data[ret_col].dropna(): the defined returns of the rows labelled
\* `regime`, in row order
RegimeReturns(df, regime, col) ==
    LET kept == SelectSeq([i \in 1..Len(df) |->
                              [use |-> df[i].REGIME = regime /\ notna(df[i][col]),
                               x   |-> df[i][col].v]],
                          LAMBDA r : r.use)
    IN  [k \in 1..Len(kept) |-> kept[k].x]

\* n * sum(x^2) - sum(x)^2: n * (n - 1) times the sample variance, in return units
ScaledVariance(xs) == Len(xs) * SeqSumSq(xs) - SeqSum(xs) * SeqSum(xs)

\* round(ann_vol, 2) = 0, where ann_vol = returns.std() * sqrt(252) * 100:
\* variance * 252 * 10^4 < 0.005^2
AnnVolRoundsToZero(xs) ==
    ScaledVariance(xs)
        < CeilDiv(CeilDiv(Len(xs) * (Len(xs) - 1) * RET_UNITS * RET_UNITS,
                          ANNUALIZATION_FACTOR * 400), 1000000)

\* round(ann_return / ann_vol, 2) = 0 for ann_vol > 0: the squared ratio
\* 252 * (n - 1) * sum^2 / (n * ScaledVariance) is below 0.005^2
RatioRoundsToZero(xs) ==
    (Len(xs) - 1) * SeqSum(xs) * SeqSum(xs)
        < CeilDiv(Len(xs) * ScaledVariance(xs), ANNUALIZATION_FACTOR * 40000)

\* sharpe = ann_return / ann_vol if ann_vol > 0 else 0, then round(sharpe, 2):
\* the sign of the stored field.  Without the guard a zero volatility divides
\* by zero: inf, or nan for a zero return.
SharpeSignUnguarded(xs) ==
    IF ScaledVariance(xs) > 0
    THEN IF RatioRoundsToZero(xs) THEN Num(0) ELSE Num(Sign(SeqSum(xs)))
    ELSE IF SeqSum(xs) = 0 THEN NaN ELSE Num(Sign(SeqSum(xs)))
SharpeSign(xs) ==
    IF ScaledVariance(xs) > 0
    THEN IF RatioRoundsToZero(xs) THEN Num(0) ELSE Num(Sign(SeqSum(xs)))
    ELSE Num(0)

\* the drawdown loop: cum_ret = (1 + returns).cumprod(), its running maximum,
\* and the least (cum_ret - running_max) / running_max from the k-th return on
\* the same loop measuring each cumulative return against the starting value 1
\* instead of the running maximum
RECURSIVE MinDrawdownNoPeak(_, _, _, _, _)
MinDrawdownNoPeak(xs, k, cum, running_max, least) ==
    IF k > Len(xs) THEN least
    ELSE LET c == Ratio(cum.num * (RET_UNITS + xs[k]), cum.den * RET_UNITS)
             dd == Ratio(c.num - c.den, c.den)
             l == IF k = 1 \/ RatioLess(dd, least) THEN dd ELSE least
         IN  MinDrawdownNoPeak(xs, k + 1, c, running_max, l)
RECURSIVE MinDrawdown(_, _, _, _, _)
MinDrawdown(xs, k, cum, running_max, least) ==
    IF k > Len(xs) THEN least
    ELSE LET c == Ratio(cum.num * (RET_UNITS + xs[k]), cum.den * RET_UNITS)
             m == IF k = 1 \/ RatioLess(running_max, c) THEN c ELSE running_max
             dd == Ratio(c.num * m.den - m.num * c.den, m.num * c.den)
             l == IF k = 1 \/ RatioLess(dd, least) THEN dd ELSE least
         IN  MinDrawdown(xs, k + 1, c, m, l)

\* one result row; Ann_Return_pct and Max_DD_pct in hundredths of a percent,
\* Win_Rate_pct in tenths
PerformanceRecord(regime, ticker, xs) ==
    LET max_dd == MinDrawdown(xs, 1, [num |-> 1, den |-> 1], [num |-> 1, den |-> 1],
                              [num |-> 0, den |-> 1])
        wins == Len(SelectSeq(xs, LAMBDA x : x > 0))
    IN  [Regime         |-> regime,
         Asset          |-> ticker,
         Ann_Return_pct |-> RoundHalfEven(SeqSum(xs) * ANNUALIZATION_FACTOR * 10000,
                                          Len(xs) * RET_UNITS),
         Ann_Vol_zero   |-> AnnVolRoundsToZero(xs),
         Sharpe_sign    |-> SharpeSign(xs),
         Max_DD_pct     |-> RoundHalfEven(max_dd.num * 10000, max_dd.den),
         Win_Rate_pct   |-> RoundHalfEven(wins * 1000, Len(xs)),
         Observations   |-> Len(xs)]

REGIMES == <<"TIGHTENING", "EASING", "STRESS", "NORMAL">>

\* the rows of one regime: skipped below 10 labelled days; per ticker skipped
\* without a return column or below 5 defined returns
RECURSIVE TickerRecords(_, _, _, _)
\* (the ticker loop accepting one defined return fewer)
TickerRecordsOneFewer(df, cfg, regime, k) ==
    IF k > Len(cfg.TICKERS) THEN <<>>
    ELSE LET col == ReturnCol(cfg.TICKERS[k])
             rest == TickerRecords(df, cfg, regime, k + 1)
         IN  IF col \notin Columns(df) THEN rest
             ELSE LET xs == RegimeReturns(df, regime, col)
                  IN  IF Len(xs) < MIN_OBSERVATIONS - 1 THEN rest
                      ELSE <<PerformanceRecord(regime, cfg.TICKERS[k], xs)>> \o rest
TickerRecords(df, cfg, regime, k) ==
    IF k > Len(cfg.TICKERS) THEN <<>>
    ELSE LET col == ReturnCol(cfg.TICKERS[k])
             rest == TickerRecords(df, cfg, regime, k + 1)
         IN  IF col \notin Columns(df) THEN rest
             ELSE LET xs == RegimeReturns(df, regime, col)
                  IN  IF Len(xs) < MIN_OBSERVATIONS THEN rest
                      ELSE <<PerformanceRecord(regime, cfg.TICKERS[k], xs)>> \o rest

RegimeDays(df, regime) == Cardinality({i \in 1..Len(df) : df[i].REGIME = regime})

RECURSIVE RegimeRecords(_, _, _)
RegimeRecords(df, cfg, r) ==
    IF r > Len(REGIMES) THEN <<>>
    ELSE (IF RegimeDays(df, REGIMES[r]) < MIN_REGIME_DAYS THEN <<>>
          ELSE TickerRecords(df, cfg, REGIMES[r], 1))
         \o RegimeRecords(df, cfg, r + 1)

\* performance_df
regime_performance(df, cfg) == RegimeRecords(df, cfg, 1)

\* the guard at the head of regime_performance, rolling_correlation,
\* calculate_portfolio_returns and get_data
\* (a method that returned None where the guard raises)
NotCalculatedReturnsNone == Returned(None)
NotCalculated == Raised("ValueError", "Must run calculate_returns() first")

\* PerformanceAnalyzer(data, config)
NewAnalyzer(data) == [data |-> data, returns_data |-> None]

----------------------------------------------------------------------------
(* Specification: one PerformanceAnalyzer on a labelled price panel *)

MaxPerfDays == 10

PriceLevels == {1, 2}

\* label paths: one regime throughout, or a first NORMAL day followed by one
\* regime
LabelPaths(n) ==
    {[i \in 1..n |-> "NORMAL"],
     [i \in 1..n |-> "STRESS"],
     [i \in 1..n |-> IF i = 1 THEN "NORMAL" ELSE "TIGHTENING"]}

\* the row from which TLT has a price: from the start, or late enough to
\* leave MIN_OBSERVATIONS defined returns, or one fewer
ListingRows == {1, MaxPerfDays - MIN_OBSERVATIONS, MaxPerfDays - MIN_OBSERVATIONS + 1}

\* panels with an SPY price every day; TLT is absent, or priced 1 from its
\* listing row on and missing before
PerfPanels ==
    {[i \in 1..MaxPerfDays |-> [REGIME |-> labels[i], SPY |-> Num(prices[i])]] :
        labels \in LabelPaths(MaxPerfDays),
        prices \in [1..MaxPerfDays -> PriceLevels]}
    \cup
    {[i \in 1..MaxPerfDays |->
         [REGIME |-> labels[i], SPY |-> Num(prices[i]),
          TLT |-> IF i >= listed THEN Num(1) ELSE NaN]] :
        labels \in LabelPaths(MaxPerfDays),
        prices \in [1..MaxPerfDays -> PriceLevels],
        listed \in ListingRows}

PerfConfigs == [TICKERS : {<<"SPY", "TLT", "GLD">>}]

PerfInit ==
    /\ config \in PerfConfigs
    /\ analyzer \in {NewAnalyzer(p) : p \in PerfPanels}
    /\ classifier = None
    /\ classifier_t = None
    /\ shock_analyzer = None
    /\ result = None
    /\ handed = {}
    /\ main = None

\* analyzer.calculate_returns()
CalculateReturns ==
    /\ analyzer # None
    /\ analyzer' = [analyzer EXCEPT !.returns_data = Some(calculate_returns(analyzer.data, config))]
    /\ result' = Call("calculate_returns", None, Returned("returns_data"))
    /\ handed' = HandOver(Released(handed, "analyzer.returns_data"),
                          "analyzer.returns_data", calculate_returns(analyzer.data, config))
    /\ UNCHANGED <<config, main, classifier, classifier_t, shock_analyzer>>

\* analyzer.regime_performance(): ValueError before calculate_returns
RegimePerformance ==
    /\ analyzer # None
    /\ result' = Call("regime_performance", None,
                      IF analyzer.returns_data = None
                      THEN NotCalculated
                      ELSE Returned(regime_performance(analyzer.returns_data.val, config)))
    /\ UNCHANGED <<config, main, classifier, classifier_t, analyzer, shock_analyzer, handed>>

PerfNext == CalculateReturns \/ RegimePerformance

SpecPerf == PerfInit /\ [][PerfNext]_vars

----------------------------------------------------------------------------
(* Claims about regime_performance *)

PerformanceReturned ==
    result # None /\ result.call = "regime_performance" /\ ~result.outcome.raised
Records == result.outcome.value

\* the defined returns behind a record, read off the stored returns frame
ReturnsOf(rec) ==
    RegimeReturns(analyzer.returns_data.val, rec.Regime, ReturnCol(rec.Asset))
AllEqual(xs) == \A i, j \in 1..Len(xs) : xs[i] = xs[j]

\* C10 as stated: in every record the Sharpe ratio is 0 if and only if the
\* annualized volatility is 0.
C10_Original ==
    PerformanceReturned =>
        \A k \in 1..Len(Records) :
            (Records[k].Sharpe_sign = Num(0)) <=> Records[k].Ann_Vol_zero

\* C10 amended: in every record the Sharpe ratio is 0 whenever the annualized
\* volatility is 0 (all returns equal); with a non-zero volatility it is 0 when
\* the returns sum to 0 or return / volatility rounds to 0.00, and otherwise it
\* is a number with the sign of the mean return.
C10_SharpeZero ==
    PerformanceReturned =>
        \A k \in 1..Len(Records) :
            LET xs == ReturnsOf(Records[k])
                sharpe == Records[k].Sharpe_sign
            IN  /\ AllEqual(xs) => (sharpe = Num(0) /\ Records[k].Ann_Vol_zero)
                /\ ~AllEqual(xs) =>
                      /\ ~Records[k].Ann_Vol_zero
                      /\ SeqSum(xs) = 0 => sharpe = Num(0)
                      /\ SeqSum(xs) # 0 =>
                            \/ sharpe = Num(Sign(SeqSum(xs)))
                            \/ sharpe = Num(0) /\ RatioRoundsToZero(xs)

\* a performance table holding a record whose returns are not all equal
\* (non-zero volatility) but sum to 0, with Sharpe 0
C10_Witness ==
    /\ PerformanceReturned
    /\ \E k \in 1..Len(Records) :
          /\ ~AllEqual(ReturnsOf(Records[k]))
          /\ ~Records[k].Ann_Vol_zero
          /\ SeqSum(ReturnsOf(Records[k])) = 0
          /\ Records[k].Sharpe_sign = Num(0)

\* C11: in every record of regime_performance the maximum drawdown, in
\* hundredths of a percent, is at most 0 and at least -100 percent.
C11_DrawdownRange ==
    PerformanceReturned =>
        \A k \in 1..Len(Records) :
            Records[k].Max_DD_pct <= 0 /\ Records[k].Max_DD_pct >= -10000

\* a record of a regime whose prices rose above their start and fell back:
\* a drawdown of 50 percent below the running peak
C11_Witness ==
    /\ PerformanceReturned
    /\ \E k \in 1..Len(Records) :
          /\ Records[k].Max_DD_pct = -5000
          /\ \E i \in 1..Len(ReturnsOf(Records[k])) : ReturnsOf(Records[k])[i] > 0

----------------------------------------------------------------------------
(* The ordered rules of classify_regimes *)

\* C18: on every date at or after the lookback horizon the label is the first
\* match of: STRESS if the volatility average exceeds the stress threshold,
\* TIGHTENING if a trailing change exceeds +threshold, EASING if a trailing
\* change is below -threshold, NORMAL otherwise; every date carries one of
\* the four labels.
C18_OrderedRules ==
    Labelled =>
        /\ \A i \in 1..Len(Panel) :
              AtOrAfterHorizon(i) =>
                  Labels[i].REGIME =
                      IF VolAverageHigh(i) THEN "STRESS"
                      ELSE IF RisingMove(i) THEN "TIGHTENING"
                      ELSE IF FallingMove(i) THEN "EASING"
                      ELSE "NORMAL"
        /\ Len(Labels) = Len(Panel)
        /\ \A i \in 1..Len(Labels) :
              Labels[i].REGIME \in {"STRESS", "TIGHTENING", "EASING", "NORMAL"}

\* a labelled panel with a calm date whose rate change is above +threshold
\* while its yield change is below -threshold, labelled TIGHTENING, and a calm
\* date with a falling move only, labelled EASING
C18_Witness ==
    /\ Labelled
    /\ \E i \in 1..Len(Panel) :
          /\ AtOrAfterHorizon(i) /\ ~VolAverageHigh(i)
          /\ TrailingChange("FED_FUNDS", i) > config.RATE_CHANGE_THRESHOLD
          /\ TrailingChange("TREASURY_10Y", i) < -config.RATE_CHANGE_THRESHOLD
          /\ Labels[i].REGIME = "TIGHTENING"
    /\ \E i \in 1..Len(Panel) :
          /\ AtOrAfterHorizon(i) /\ ~VolAverageHigh(i)
          /\ ~RisingMove(i) /\ FallingMove(i)
          /\ Labels[i].REGIME = "EASING"

----------------------------------------------------------------------------
(* The greedy filter of identify_shocks *)

ShocksIdentified == shock_analyzer # None /\ shock_analyzer.shock_dates # None
Events == shock_analyzer.shock_dates.val
EventSet == {Events[k] : k \in 1..Len(Events)}

\* the dates whose trailing yield change over the shock lookback exceeds the
\* shock threshold
CandidateRows ==
    {i \in 1..Len(ShockPanel) :
        /\ i > config.SHOCK_LOOKBACK
        /\ ShockPanel[i].TREASURY_10Y - ShockPanel[i - config.SHOCK_LOOKBACK].TREASURY_10Y
              > config.SHOCK_YIELD_THRESHOLD}
CandidateDates == {ShockPanel[i].date : i \in CandidateRows}

\* the accepted events strictly before a date
AcceptedBefore(date) == {e \in EventSet : e < date}
Latest(S) == CHOOSE x \in S : \A y \in S : y <= x

\* C19: identify_shocks returns, in chronological order, candidates only; the
\* first candidate is accepted, and a later candidate is accepted if and only
\* if it lies more than 180 days after the most recently accepted event; so
\* every rejected candidate lies within 180 days after an accepted event.
C19_GreedyFilter ==
    ShocksIdentified =>
        /\ EventSet \subseteq CandidateDates
        /\ \A a, b \in 1..Len(Events) : a < b => Events[a] < Events[b]
        /\ \A c \in CandidateDates :
              IF \A d \in CandidateDates : c <= d
              THEN c \in EventSet
              ELSE /\ AcceptedBefore(c) # {}
                   /\ c \in EventSet <=> c - Latest(AcceptedBefore(c)) > 180
        /\ \A c \in CandidateDates \ EventSet :
              \E e \in EventSet : e < c /\ c - e <= 180

\* a candidate exactly 180 days after the last accepted event was rejected
C19_Witness ==
    /\ ShocksIdentified
    /\ \E c \in CandidateDates \ EventSet :
          /\ AcceptedBefore(c) # {}
          /\ c - Latest(AcceptedBefore(c)) = 180

----------------------------------------------------------------------------
(* Which records regime_performance emits *)

ReturnsFrame == analyzer.returns_data.val

\* the labelled days of a regime, and the days among them on which the asset
\* has a defined daily return
DaysOf(regime) == {i \in 1..Len(ReturnsFrame) : ReturnsFrame[i].REGIME = regime}
ValidReturnDays(regime, asset) ==
    {i \in DaysOf(regime) :
        /\ i > 1
        /\ asset \in DOMAIN analyzer.data[i]
        /\ analyzer.data[i][asset].ok
        /\ analyzer.data[i - 1][asset].ok}
RecordsFor(regime, asset) ==
    {k \in 1..Len(Records) : Records[k].Regime = regime /\ Records[k].Asset = asset}

\* C20: regime_performance emits a record for a (regime, asset) pair if and
\* only if the regime has at least 10 labelled days and the asset has at least
\* 5 defined daily returns on them; at most one record per pair, whose
\* Observations is the number of those returns.
C20_RecordThresholds ==
    PerformanceReturned =>
        \A regime \in {"TIGHTENING", "EASING", "STRESS", "NORMAL"} :
            \A asset \in {"SPY", "TLT", "GLD"} :
                /\ RecordsFor(regime, asset) # {}
                      <=> /\ Cardinality(DaysOf(regime)) >= 10
                          /\ Cardinality(ValidReturnDays(regime, asset)) >= 5
                /\ Cardinality(RecordsFor(regime, asset)) <= 1
                /\ \A k \in RecordsFor(regime, asset) :
                      Records[k].Observations = Cardinality(ValidReturnDays(regime, asset))

\* a table with a record for an asset with exactly 5 defined returns in a
\* regime of at least 10 days
C20_Witness ==
    /\ PerformanceReturned
    /\ \E k \in 1..Len(Records) :
          /\ Records[k].Asset = "TLT"
          /\ Records[k].Observations = 5
          /\ Cardinality(DaysOf(Records[k].Regime)) >= 10

----------------------------------------------------------------------------
(* RegimeClassifier.get_regime_summary, identify_regime_transitions, get_data *)

\* the duration scan over the labels from the k-th on, carrying durations,
\* current_regime and current_duration; the last run is appended after the loop
\* (the scan starting each new run at length 0)
RECURSIVE DurationLoopRestartAtZero(_, _, _, _, _)
DurationLoopRestartAtZero(labels, k, durations, current_regime, current_duration) ==
    IF k > Len(labels)
    THEN IF current_regime # None
         THEN Append(durations, [regime |-> current_regime.val, duration |-> current_duration])
         ELSE durations
    ELSE IF current_regime # None /\ labels[k] = current_regime.val
    THEN DurationLoopRestartAtZero(labels, k + 1, durations, current_regime,
                                   current_duration + 1)
    ELSE DurationLoopRestartAtZero(labels, k + 1,
                      IF current_regime # None
                      THEN Append(durations, [regime   |-> current_regime.val,
                                              duration |-> current_duration])
                      ELSE durations,
                      Some(labels[k]), 0)
RECURSIVE DurationLoop(_, _, _, _, _)
DurationLoop(labels, k, durations, current_regime, current_duration) ==
    IF k > Len(labels)
    THEN IF current_regime # None
         THEN Append(durations, [regime |-> current_regime.val, duration |-> current_duration])
         ELSE durations
    ELSE IF current_regime # None /\ labels[k] = current_regime.val
    THEN DurationLoop(labels, k + 1, durations, current_regime, current_duration + 1)
    ELSE DurationLoop(labels, k + 1,
                      IF current_regime # None
                      THEN Append(durations, [regime   |-> current_regime.val,
                                              duration |-> current_duration])
                      ELSE durations,
                      Some(labels[k]), 1)

\* df['REGIME']
RegimeColumn(df) == [i \in 1..Len(df) |-> df[i].REGIME]

\* the summary frame, one row per regime that occurs, keyed by regime (the
\* frame's index): Days, Percentage and Avg_Duration_Days in tenths, each
\* rounded as the code rounds (Percentage to 2 places, then the frame to 1)
get_regime_summary(df) ==
    LET labels == RegimeColumn(df)
        durations == DurationLoop(labels, 1, <<>>, None, 0)
        days(r) == Cardinality({i \in 1..Len(labels) : labels[i] = r})
        runs(r) == SelectSeq(durations, LAMBDA d : d.regime = r)
    IN  [r \in {labels[i] : i \in 1..Len(labels)} |->
            [Days              |-> days(r),
             Percentage        |-> RoundHalfEven(RoundHalfEven(days(r) * 10000, Len(df)), 10),
             Avg_Duration_Days |->
                 RoundHalfEven(10 * SeqSum([k \in 1..Len(runs(r)) |-> runs(r)[k].duration]),
                               Len(runs(r)))]]

\* a label cell of PREV_REGIME: shift(1) leaves NaN on the first row
Label(x) == [ok |-> TRUE, v |-> x]
NoLabel == [ok |-> FALSE, v |-> "NaN"]

\* df['REGIME'] != df['REGIME'].shift(1): True on the first row, where the
\* shifted value is NaN
REGIME_SHIFT(df, i) == i = 1 \/ df[i].REGIME # df[i - 1].REGIME

\* the stored frame after identify_regime_transitions: df is self.regime_data
\* itself, so the column is added to the stored object
WithRegimeShift(df) ==
    [i \in 1..Len(df) |->
        [c \in DOMAIN df[i] \cup {"REGIME_SHIFT"} |->
            IF c = "REGIME_SHIFT" THEN REGIME_SHIFT(df, i) ELSE df[i][c]]]

\* transition_summary: the rows with REGIME_SHIFT, in index order, with the
\* previous row's label; `index` is the row's index value
identify_regime_transitions(df) ==
    LET rows == SelectSeq([i \in 1..Len(df) |-> i], LAMBDA i : REGIME_SHIFT(df, i))
    IN  [k \in 1..Len(rows) |->
            LET i == rows[k]
            IN  [index        |-> i,
                 REGIME       |-> df[i].REGIME,
                 PREV_REGIME  |-> IF i = 1 THEN NoLabel ELSE Label(df[i - 1].REGIME),
                 VIX          |-> df[i].VIX,
                 FED_FUNDS    |-> df[i].FED_FUNDS,
                 TREASURY_10Y |-> df[i].TREASURY_10Y]]

\* the guard at the head of the three methods
ClassifiedGuard(self) == self.regime_data = None
NotClassified == Raised("ValueError", "Must run classify_regimes() first")

\* classifier.get_regime_summary()
GetRegimeSummary ==
    /\ classifier # None
    /\ result' = Call("get_regime_summary", None,
                      IF ClassifiedGuard(classifier) THEN NotClassified
                      ELSE Returned(get_regime_summary(classifier.regime_data.val)))
    /\ UNCHANGED <<config, main, classifier, classifier_t, analyzer, shock_analyzer, handed>>

\* classifier.identify_regime_transitions()
IdentifyRegimeTransitions ==
    /\ classifier # None
    /\ IF ClassifiedGuard(classifier)
       THEN /\ result' = Call("identify_regime_transitions", None, NotClassified)
            /\ UNCHANGED <<classifier, handed>>
       ELSE LET df == WithRegimeShift(classifier.regime_data.val)
            IN  /\ classifier' = [classifier EXCEPT !.regime_data = Some(df)]
                /\ handed' = MutatedInPlace(handed, "classifier.regime_data", df)
                /\ result' = Call("identify_regime_transitions", None,
                                  Returned(identify_regime_transitions(classifier.regime_data.val)))
    /\ UNCHANGED <<config, main, classifier_t, analyzer, shock_analyzer>>

\* classifier.get_data()
ClassifierGetData ==
    /\ classifier # None
    /\ IF ClassifiedGuard(classifier)
       THEN /\ result' = Call("get_data", None, NotClassified)
            /\ UNCHANGED handed
       ELSE /\ result' = Call("get_data", None, Returned("regime_data"))
            /\ handed' = HandOver(handed, "classifier.regime_data", classifier.regime_data.val)
    /\ UNCHANGED <<config, main, classifier, classifier_t, analyzer, shock_analyzer>>

----------------------------------------------------------------------------
(* Specification: the methods of one RegimeClassifier on calm panels whose   *)
(* policy rate rises, falls or stays flat on every day after the first       *)

MaxRegimeDays == 7

DayMoves == {"up", "down", "flat"}

\* the policy rate after the moves of days 2..i, from a level that keeps it
\* positive
RECURSIVE RateAfter(_, _)
RateAfter(moves, i) ==
    IF i = 1 THEN 2 * MaxRegimeDays
    ELSE RateAfter(moves, i - 1)
            + (CASE moves[i] = "up" -> 2 [] moves[i] = "down" -> -2 [] OTHER -> 0)

MovePanels ==
    {[i \in 1..MaxRegimeDays |->
         [FED_FUNDS    |-> RateAfter(moves, i),
          TREASURY_10Y |-> 0,
          VIX          |-> 1]] :
        moves \in [2..MaxRegimeDays -> DayMoves]}

RegimesConfig ==
    [QUARTERLY_LOOKBACK    |-> 1,
     VIX_LOOKBACK          |-> 1,
     RATE_CHANGE_THRESHOLD |-> 1,
     VIX_STRESS_THRESHOLD  |-> 2]

RegimesInit ==
    /\ config = RegimesConfig
    /\ classifier \in {NewClassifier(p) : p \in MovePanels}
    /\ classifier_t = None
    /\ analyzer = None
    /\ shock_analyzer = None
    /\ result = None
    /\ handed = {}
    /\ main = None

RegimesNext ==
    \/ ClassifyRegimes
    \/ GetRegimeSummary
    \/ IdentifyRegimeTransitions
    \/ ClassifierGetData

SpecRegimes == RegimesInit /\ [][RegimesNext]_vars

----------------------------------------------------------------------------
(* Claims about get_regime_summary and identify_regime_transitions *)

SummaryReturned ==
    result # None /\ result.call = "get_regime_summary" /\ ~result.outcome.raised
RegimeSummary == result.outcome.value
StoredLabels == RegimeColumn(classifier.regime_data.val)

\* the maximal runs of a regime: first and last row of each stretch of
\* consecutive dates carrying it
MaximalRuns(r) ==
    {run \in (1..Len(StoredLabels)) \X (1..Len(StoredLabels)) :
        /\ run[1] <= run[2]
        /\ \A i \in run[1]..run[2] : StoredLabels[i] = r
        /\ run[1] = 1 \/ StoredLabels[run[1] - 1] # r
        /\ run[2] = Len(StoredLabels) \/ StoredLabels[run[2] + 1] # r}
RECURSIVE RunLengthSum(_)
RunLengthSum(runs) ==
    IF runs = {} THEN 0
    ELSE LET run == CHOOSE x \in runs : TRUE
         IN  (run[2] - run[1] + 1) + RunLengthSum(runs \ {run})
DayCount(r) == Cardinality({i \in 1..Len(StoredLabels) : StoredLabels[i] = r})

\* C12: get_regime_summary has one row per regime that occurs; its average
\* duration is the mean length of the regime's maximal runs (the run open at
\* the series end included), to one decimal, and the run lengths of a regime
\* sum to its day count.
C12_MeanRunLength ==
    SummaryReturned =>
        /\ DOMAIN RegimeSummary = {StoredLabels[i] : i \in 1..Len(StoredLabels)}
        /\ \A r \in DOMAIN RegimeSummary :
              /\ RegimeSummary[r].Days = DayCount(r)
              /\ RunLengthSum(MaximalRuns(r)) = DayCount(r)
              /\ RegimeSummary[r].Avg_Duration_Days
                    = RoundHalfEven(10 * RunLengthSum(MaximalRuns(r)),
                                    Cardinality(MaximalRuns(r)))

\* the labels NORMAL, then A,A,A,B,B,NORMAL with A = TIGHTENING and B = EASING:
\* run lengths A: 3, B: 2, and 1 for the closing NORMAL run
C12_Witness ==
    /\ SummaryReturned
    /\ StoredLabels = <<"NORMAL", "TIGHTENING", "TIGHTENING", "TIGHTENING",
                        "EASING", "EASING", "NORMAL">>
    /\ RegimeSummary["TIGHTENING"].Avg_Duration_Days = 30
    /\ RegimeSummary["EASING"].Avg_Duration_Days = 20
    /\ RegimeSummary["NORMAL"].Avg_Duration_Days = 10

TransitionsReturned ==
    result # None /\ result.call = "identify_regime_transitions" /\ ~result.outcome.raised
Transitions == result.outcome.value

\* the dates whose label differs from the label of the preceding date
LabelChanges == {i \in 2..Len(StoredLabels) : StoredLabels[i] # StoredLabels[i - 1]}

\* C16 as stated: identify_regime_transitions returns, in chronological order,
\* exactly the dates whose label differs from that of the preceding date, each
\* with the preceding date's label; the first date is not a label change.
C16_Original ==
    TransitionsReturned =>
        /\ {Transitions[k].index : k \in 1..Len(Transitions)} = LabelChanges
        /\ \A a, b \in 1..Len(Transitions) : a < b => Transitions[a].index < Transitions[b].index
        /\ \A k \in 1..Len(Transitions) :
              /\ Transitions[k].REGIME = StoredLabels[Transitions[k].index]
              /\ Transitions[k].PREV_REGIME = Label(StoredLabels[Transitions[k].index - 1])

\* what the method returns: the first date with a missing previous label, then
\* the label changes in order, each with the preceding date's label
C16_FirstDateIncluded ==
    TransitionsReturned =>
        /\ {Transitions[k].index : k \in 1..Len(Transitions)} = LabelChanges \cup {1}
        /\ \A a, b \in 1..Len(Transitions) : a < b => Transitions[a].index < Transitions[b].index
        /\ \A k \in 1..Len(Transitions) :
              /\ Transitions[k].REGIME = StoredLabels[Transitions[k].index]
              /\ Transitions[k].PREV_REGIME =
                    IF Transitions[k].index = 1 THEN NoLabel
                    ELSE Label(StoredLabels[Transitions[k].index - 1])

\* transitions were returned for a panel with at least two label changes
C16_Witness ==
    /\ TransitionsReturned
    /\ Cardinality(LabelChanges) >= 2
    /\ Transitions[1].index = 1

----------------------------------------------------------------------------
(* PerformanceAnalyzer.rolling_correlation, calculate_portfolio_returns,     *)
(* get_data.  A correlation cell keeps the exact window statistics of        *)
(* corr = cov / sqrt(var1 * var2), each times window^2, in return units; a   *)
(* portfolio return is in weight units times return units.                   *)

Config_ROLLING_CORR_WINDOW == 60

\* ValueError(f"Return columns not found for {asset1} or {asset2}")
ColumnsNotFound(asset1, asset2) ==
    [raised |-> TRUE, error |-> "ValueError", at |-> "Return columns not found for",
     names |-> <<asset1, asset2>>]

\* f'{asset1}_{asset2}_CORR'
CorrCol(asset1, asset2) == asset1 \o "_" \o asset2 \o "_CORR"

\* the window statistics of rows i-window+1..i; with a zero variance the
\* quotient has a zero denominator and is no number (NaN, or an infinity from a
\* rounding residue in the numerator): not ok
WindowCorr(df, c1, c2, window, i) ==
    LET xs == [k \in 1..window |-> df[i - window + k][c1].v]
        ys == [k \in 1..window |-> df[i - window + k][c2].v]
        xy == [k \in 1..window |-> xs[k] * ys[k]]
        var1 == window * SeqSumSq(xs) - SeqSum(xs) * SeqSum(xs)
        var2 == window * SeqSumSq(ys) - SeqSum(ys) * SeqSum(ys)
    IN  [ok   |-> var1 # 0 /\ var2 # 0,
         cov  |-> window * SeqSum(xy) - SeqSum(xs) * SeqSum(ys),
         var1 |-> var1,
         var2 |-> var2]

\* (a window that counts its rows and not its defined returns)
RollingCorrCountsRows(df, c1, c2, window, i) ==
    IF i < window THEN NaN ELSE WindowCorr(df, c1, c2, window, i)
\* df[ret1_col].rolling(window=window).corr(df[ret2_col]) at row i: NaN until
\* the window holds `window` rows with both returns defined
RollingCorr(df, c1, c2, window, i) ==
    IF i < window \/ \E j \in (i - window + 1)..i : ~notna(df[j][c1]) \/ ~notna(df[j][c2])
    THEN NaN
    ELSE WindowCorr(df, c1, c2, window, i)

\* the outcome of rolling_correlation and the frame it stores on success: a
\* copy of the stored frame with the correlation column added (or replaced)
rolling_correlation(df, asset1, asset2, window) ==
    IF ReturnCol(asset1) \notin Columns(df) \/ ReturnCol(asset2) \notin Columns(df)
    THEN [outcome |-> ColumnsNotFound(asset1, asset2), stored |-> None]
    ELSE [outcome |-> Returned("returns_data"),
          stored  |-> Some(
              [i \in 1..Len(df) |->
                  [c \in DOMAIN df[i] \cup {CorrCol(asset1, asset2)} |->
                      IF c = CorrCol(asset1, asset2)
                      THEN RollingCorr(df, ReturnCol(asset1), ReturnCol(asset2), window, i)
                      ELSE df[i][c]]])]

\* df['PORTFOLIO_RET'] = 0, then += weight * df[ret_col] for every ticker of
\* the weight map that has a return column; NaN where one of those is NaN
RECURSIVE PortfolioSum(_, _, _)
PortfolioSum(tickers, weights, row) ==
    IF tickers = {} THEN 0
    ELSE LET t == CHOOSE x \in tickers : TRUE
         IN  weights[t] * row[ReturnCol(t)].v + PortfolioSum(tickers \ {t}, weights, row)
\* (a sum that is undefined as soon as a weighted ticker has no return column)
PORTFOLIO_RET_Strict(df, weights, i) ==
    IF \E t \in DOMAIN weights : ReturnCol(t) \notin Columns(df) THEN NaN
    ELSE IF \E t \in DOMAIN weights : ~notna(df[i][ReturnCol(t)]) THEN NaN
    ELSE Num(PortfolioSum(DOMAIN weights, weights, df[i]))
PORTFOLIO_RET(df, weights, i) ==
    LET tickers == {t \in DOMAIN weights : ReturnCol(t) \in Columns(df)}
    IN  IF \E t \in tickers : ~notna(df[i][ReturnCol(t)]) THEN NaN
        ELSE Num(PortfolioSum(tickers, weights, df[i]))

\* the frame calculate_portfolio_returns stores and returns
calculate_portfolio_returns(df, weights) ==
    [i \in 1..Len(df) |->
        [c \in DOMAIN df[i] \cup {"PORTFOLIO_RET"} |->
            IF c = "PORTFOLIO_RET" THEN PORTFOLIO_RET(df, weights, i) ELSE df[i][c]]]

\* analyzer.rolling_correlation(asset1, asset2, window)
RollingCorrelation ==
    /\ analyzer # None
    /\ \E pair \in {<<"SPY", "TLT">>, <<"SPY", "GLD">>, <<"GLD", "SPY">>, <<"GLD", "TLT">>},
          window \in {None, Some(2)} :
         LET arg == [asset1 |-> pair[1], asset2 |-> pair[2], window |-> window]
         IN  IF analyzer.returns_data = None
             THEN /\ result' = Call("rolling_correlation", Some(arg), NotCalculated)
                  /\ UNCHANGED <<analyzer, handed>>
             ELSE LET did == rolling_correlation(
                                analyzer.returns_data.val, pair[1], pair[2],
                                IF window = None THEN config.ROLLING_CORR_WINDOW
                                ELSE window.val)
                  IN  /\ result' = Call("rolling_correlation", Some(arg), did.outcome)
                      /\ IF did.stored = None
                         THEN UNCHANGED <<analyzer, handed>>
                         ELSE /\ analyzer' = [analyzer EXCEPT !.returns_data = did.stored]
                              /\ handed' = HandOver(Released(handed, "analyzer.returns_data"),
                                                    "analyzer.returns_data", did.stored.val)
    /\ UNCHANGED <<config, main, classifier, classifier_t, shock_analyzer>>

\* analyzer.calculate_portfolio_returns(weights)
CalculatePortfolioReturns ==
    /\ analyzer # None
    /\ \E weights \in {None, Some([SPY |-> 100]), Some([TLT |-> 50, GLD |-> 50])} :
         IF analyzer.returns_data = None
         THEN /\ result' = Call("calculate_portfolio_returns", weights, NotCalculated)
              /\ UNCHANGED <<analyzer, handed>>
         ELSE LET df == calculate_portfolio_returns(
                            analyzer.returns_data.val,
                            IF weights = None THEN config.PORTFOLIO_WEIGHTS ELSE weights.val)
              IN  /\ result' = Call("calculate_portfolio_returns", weights,
                                    Returned("returns_data"))
                  /\ analyzer' = [analyzer EXCEPT !.returns_data = Some(df)]
                  /\ handed' = HandOver(Released(handed, "analyzer.returns_data"),
                                        "analyzer.returns_data", df)
    /\ UNCHANGED <<config, main, classifier, classifier_t, shock_analyzer>>

\* analyzer.get_data()
AnalyzerGetData ==
    /\ analyzer # None
    /\ IF analyzer.returns_data = None
       THEN /\ result' = Call("get_data", None, NotCalculated)
            /\ UNCHANGED handed
       ELSE /\ result' = Call("get_data", None, Returned("returns_data"))
            /\ handed' = HandOver(handed, "analyzer.returns_data", analyzer.returns_data.val)
    /\ UNCHANGED <<config, main, classifier, classifier_t, analyzer, shock_analyzer>>

----------------------------------------------------------------------------
(* Specification: the methods of one PerformanceAnalyzer on short panels     *)
(* with an SPY price every day and, in some, a TLT price every day           *)

MaxReturnDays == 3

ReturnsPanels ==
    {[i \in 1..MaxReturnDays |-> [REGIME |-> "NORMAL", SPY |-> Num(spy[i])]] :
        spy \in [1..MaxReturnDays -> PriceLevels]}
    \cup
    {[i \in 1..MaxReturnDays |->
         [REGIME |-> "NORMAL", SPY |-> Num(spy[i]), TLT |-> Num(tlt[i])]] :
        spy \in [1..MaxReturnDays -> PriceLevels],
        tlt \in [1..MaxReturnDays -> PriceLevels]}

ReturnsConfig ==
    [TICKERS             |-> <<"SPY", "TLT", "GLD">>,
     PORTFOLIO_WEIGHTS   |-> [SPY |-> 60, TLT |-> 30, GLD |-> 10],
     ROLLING_CORR_WINDOW |-> Config_ROLLING_CORR_WINDOW]

ReturnsInit ==
    /\ config = ReturnsConfig
    /\ analyzer \in {NewAnalyzer(p) : p \in ReturnsPanels}
    /\ classifier = None
    /\ classifier_t = None
    /\ shock_analyzer = None
    /\ result = None
    /\ handed = {}
    /\ main = None

ReturnsNext ==
    \/ CalculateReturns
    \/ RegimePerformance
    \/ RollingCorrelation
    \/ CalculatePortfolioReturns
    \/ AnalyzerGetData

SpecReturns == ReturnsInit /\ [][ReturnsNext]_vars

----------------------------------------------------------------------------
(* Claims about rolling_correlation and calculate_portfolio_returns *)

Assets == {"SPY", "TLT", "GLD"}
StoredReturns == analyzer.returns_data.val
HasReturns(asset) == ReturnCol(asset) \in Columns(StoredReturns)

\* C14 as stated: rolling_correlation for a pair in which an asset has no
\* returns column raises an error that names the missing asset and only the
\* missing one, and leaves the stored returns panel unchanged.
C14_Original ==
    [][(/\ analyzer # None
        /\ analyzer.returns_data # None
        /\ result'.call = "rolling_correlation"
        /\ ~HasReturns(result'.arg.val.asset1) \/ ~HasReturns(result'.arg.val.asset2))
       => /\ result'.outcome.raised
          /\ analyzer' = analyzer
          /\ {result'.outcome.names[k] : k \in 1..Len(result'.outcome.names)}
                = {a \in {result'.arg.val.asset1, result'.arg.val.asset2} : ~HasReturns(a)}]_vars

\* rolling_correlation raised for a pair with one asset missing: the error
\* names both assets of the pair, and the stored panel has no correlation column
C14_Witness ==
    /\ result # None
    /\ result.call = "rolling_correlation"
    /\ analyzer.returns_data # None
    /\ HasReturns(result.arg.val.asset1) /\ ~HasReturns(result.arg.val.asset2)
    /\ result.outcome = ColumnsNotFound(result.arg.val.asset1, result.arg.val.asset2)
    /\ CorrCol(result.arg.val.asset1, result.arg.val.asset2) \notin Columns(StoredReturns)

CorrelationReturned ==
    result # None /\ result.call = "rolling_correlation" /\ ~result.outcome.raised
Window == IF result.arg.val.window = None THEN config.ROLLING_CORR_WINDOW
          ELSE result.arg.val.window.val
CorrCell(i) == StoredReturns[i][CorrCol(result.arg.val.asset1, result.arg.val.asset2)]
Return1(i) == StoredReturns[i][ReturnCol(result.arg.val.asset1)]
Return2(i) == StoredReturns[i][ReturnCol(result.arg.val.asset2)]
WindowRows(i) == (i - Window + 1)..i
\* both assets have `window` returns in the window ending at row i, and
\* neither asset's returns are all the same there
WindowFilled(i) ==
    i >= Window /\ \A j \in WindowRows(i) : Return1(j).ok /\ Return2(j).ok
WindowVaries(i) ==
    /\ \E j, k \in WindowRows(i) : Return1(j).v # Return1(k).v
    /\ \E j, k \in WindowRows(i) : Return2(j).v # Return2(k).v

\* C21 as stated: the rolling correlation is undefined on every row before the
\* `window`-th row of the panel and defined from the `window`-th row on.
C21_Original ==
    CorrelationReturned =>
        \A i \in 1..Len(StoredReturns) : CorrCell(i).ok <=> i >= Window

\* C21 (amended): the rolling correlation is undefined on each of the first
\* `window` rows of the panel, the first row having no return; on a later row
\* it is defined exactly when the window ending there holds `window` returns
\* of both assets and neither asset's returns are constant in it.
C21_DefinedAfterWindowReturns ==
    CorrelationReturned =>
        \A i \in 1..Len(StoredReturns) :
            /\ i <= Window => ~CorrCell(i).ok
            /\ ~Return1(1).ok /\ ~Return2(1).ok
            /\ CorrCell(i).ok <=> (WindowFilled(i) /\ WindowVaries(i))

\* a two-day correlation of SPY and TLT: undefined on the second row, defined
\* on the third
C21_Witness ==
    /\ CorrelationReturned
    /\ Window = 2
    /\ ~CorrCell(2).ok
    /\ CorrCell(3).ok

PortfolioReturned ==
    result # None /\ result.call = "calculate_portfolio_returns" /\ ~result.outcome.raised
WeightMap == IF result.arg = None THEN config.PORTFOLIO_WEIGHTS ELSE result.arg.val

\* an asset counts when it is in the weight map and has a returns column
Counts(asset) == asset \in DOMAIN WeightMap /\ HasReturns(asset)
Contribution(asset, i) ==
    IF Counts(asset) THEN WeightMap[asset] * StoredReturns[i][ReturnCol(asset)].v ELSE 0

\* C17: on each date the portfolio return is the sum over the weight map of
\* weight x daily return, undefined where one of those returns is undefined;
\* an asset absent from the weight map, and an asset of the weight map without
\* a returns column, contribute zero and nothing is raised.
C17_PortfolioReturn ==
    (result # None /\ result.call = "calculate_portfolio_returns"
        /\ analyzer.returns_data # None) =>
        /\ ~result.outcome.raised
        /\ \A i \in 1..Len(StoredReturns) :
              StoredReturns[i].PORTFOLIO_RET =
                  IF \E a \in Assets : Counts(a) /\ ~StoredReturns[i][ReturnCol(a)].ok
                  THEN NaN
                  ELSE Num(Contribution("SPY", i) + Contribution("TLT", i)
                              + Contribution("GLD", i))

\* the configured weights (GLD weighted, without a returns column) gave a
\* defined portfolio return that TLT, which moved, is part of
C17_Witness ==
    /\ PortfolioReturned
    /\ result.arg = None
    /\ HasReturns("TLT") /\ ~HasReturns("GLD")
    /\ \E i \in 1..Len(StoredReturns) :
          /\ StoredReturns[i].PORTFOLIO_RET.ok
          /\ StoredReturns[i].TLT_RET.v # 0
          /\ StoredReturns[i].PORTFOLIO_RET.v
                = 60 * StoredReturns[i].SPY_RET.v + 30 * StoredReturns[i].TLT_RET.v

----------------------------------------------------------------------------
(* Specification: any sequence of calls on one component, which is a        *)
(* RegimeClassifier, a PerformanceAnalyzer or a RateShockAnalyzer            *)

CallsInit == RegimesInit \/ ReturnsInit \/ ShockInit

CallsNext == RegimesNext \/ ReturnsNext \/ ShockNext

SpecCalls == CallsInit /\ [][CallsNext]_vars

\* C13: a call made before its prerequisite stage ran raises and leaves the
\* component as it was: get_regime_summary, identify_regime_transitions and
\* get_data before classify_regimes; regime_performance, rolling_correlation,
\* calculate_portfolio_returns and get_data before calculate_returns;
\* measure_shock_response without dates before identify_shocks.
C13_PrerequisiteErrors ==
    [][/\ (/\ classifier # None
           /\ classifier.regime_data = None
           /\ result'.call \in {"get_regime_summary", "identify_regime_transitions", "get_data"})
          => (result'.outcome.raised /\ classifier' = classifier /\ handed' = handed)
       /\ (/\ analyzer # None
           /\ analyzer.returns_data = None
           /\ result'.call \in {"regime_performance", "rolling_correlation",
                                "calculate_portfolio_returns", "get_data"})
          => (result'.outcome.raised /\ analyzer' = analyzer /\ handed' = handed)
       /\ (/\ shock_analyzer # None
           /\ shock_analyzer.shock_dates = None
           /\ result'.call = "measure_shock_response"
           /\ result'.arg = None)
          => (result'.outcome.raised /\ shock_analyzer' = shock_analyzer)]_vars

\* calculate_portfolio_returns was called on an analyzer whose returns were
\* never calculated, and raised
C13_Witness ==
    /\ analyzer # None
    /\ analyzer.returns_data = None
    /\ result # None
    /\ result.call = "calculate_portfolio_returns"
    /\ result.outcome = Raised("ValueError", "Must run calculate_returns() first")

\* C15 as stated: every panel handed out reads as it did when it was handed
\* over, after any sequence of operations.
C15_Original == \A h \in handed : h.now = h.then

\* the panel classify_regimes returned has since gained a REGIME_SHIFT column
C15_Witness ==
    \E h \in handed :
        /\ h.ref = "classifier.regime_data"
        /\ "REGIME_SHIFT" \notin Columns(h.then)
        /\ "REGIME_SHIFT" \in Columns(h.now)

\* what holds instead: a handed-out panel changes only by gaining the
\* REGIME_SHIFT column of identify_regime_transitions
C15_OnlyRegimeShiftAdded ==
    \A h \in handed :
        \/ h.now = h.then
        \/ /\ Len(h.now) = Len(h.then)
           /\ \A i \in 1..Len(h.now) :
                 /\ DOMAIN h.now[i] = DOMAIN h.then[i] \cup {"REGIME_SHIFT"}
                 /\ \A c \in DOMAIN h.then[i] : h.now[i][c] = h.then[i][c]

----------------------------------------------------------------------------
(* main(): the pipeline from regime classification to the trader note.  The  *)
(* local variables of main are the fields of `main`; `stages` lists the      *)
(* stages completed so far.                                                  *)

\* the price columns as plain numbers, the form the RateShockAnalyzer
\* operators read them in; the combined panel has no missing price
\* (combine_data drops the rows that have one)
PlainPrices(df, cfg) ==
    [i \in 1..Len(df) |->
        [c \in DOMAIN df[i] |-> IF c \in TickerSet(cfg) THEN df[i][c].v ELSE df[i][c]]]

\* Visualizer.generate_all_charts: the names of the charts made.
\* plot_performance_heatmaps pivots performance_df by regime and selects the
\* four regime columns, a KeyError when a regime has no row (or no row exists
\* at all); plot_rolling_correlation and plot_rate_shock_heatmap return None
\* without their data and are filtered out.
generate_all_charts(data, performance_df, shock_table) ==
    IF \E r \in 1..Len(REGIMES) :
          \A k \in 1..Len(performance_df) : performance_df[k].Regime # REGIMES[r]
    THEN Raised("KeyError", "plot_performance_heatmaps")
    ELSE Returned({"01_regime_timeline", "02_returns_distribution",
                   "04_performance_heatmaps", "06_regime_transitions"}
                  \cup (IF "SPY_TLT_CORR" \in Columns(data)
                        THEN {"03_rolling_correlation"} ELSE {})
                  \cup (IF shock_table = None THEN {} ELSE {"05_rate_shock_heatmap"}))

\* generate_trader_note: which text section 3 of the note carries; indexing an
\* empty performance_df by 'Regime' is a KeyError
generate_trader_note(performance_df, shock_summary, shock_table) ==
    IF Len(performance_df) = 0 THEN Raised("KeyError", "Regime")
    ELSE Returned(IF shock_summary # None /\ shock_table # None
                  THEN "Portfolio Impact"
                  ELSE "Insufficient rate shock events")

\* main moves on to `pc` with `stage` completed
Advance(pc, stage) == [main EXCEPT !.pc = pc, !.stages = Append(@, stage)]
\* an exception leaves main
Abort(outcome) == [main EXCEPT !.pc = "raised", !.error = Some(outcome)]

\* classifier = RegimeClassifier(combined_data, config); classify_regimes();
\* get_regime_summary()
MainClassify ==
    /\ main # None /\ main.pc = "classify"
    /\ LET df == classify_regimes(main.combined_data, config)
       IN  /\ classifier' = [data |-> main.combined_data, regime_data |-> Some(df)]
           /\ handed' = HandOver(handed, "classifier.regime_data", df)
           /\ result' = Call("get_regime_summary", None, Returned(get_regime_summary(df)))
           /\ main' = [Advance("returns", "classify") EXCEPT
                          !.regime_summary = Some(get_regime_summary(df))]
    /\ UNCHANGED <<config, classifier_t, analyzer, shock_analyzer>>

\* analyzer = PerformanceAnalyzer(regime_data, config); calculate_returns()
MainReturns ==
    /\ main # None /\ main.pc = "returns"
    /\ LET df == calculate_returns(classifier.regime_data.val, config)
       IN  /\ analyzer' = [data |-> classifier.regime_data.val, returns_data |-> Some(df)]
           /\ handed' = HandOver(handed, "analyzer.returns_data", df)
    /\ result' = Call("calculate_returns", None, Returned("returns_data"))
    /\ main' = Advance("performance", "returns")
    /\ UNCHANGED <<config, classifier, classifier_t, shock_analyzer>>

\* performance_df = analyzer.regime_performance()
MainPerformance ==
    /\ main # None /\ main.pc = "performance"
    /\ LET performance_df == regime_performance(analyzer.returns_data.val, config)
       IN  /\ result' = Call("regime_performance", None, Returned(performance_df))
           /\ main' = [Advance("correlation", "performance") EXCEPT
                          !.performance_df = Some(performance_df)]
    /\ UNCHANGED <<config, classifier, classifier_t, analyzer, shock_analyzer, handed>>

\* corr_data = analyzer.rolling_correlation()
MainCorrelation ==
    /\ main # None /\ main.pc = "correlation"
    /\ LET did == rolling_correlation(analyzer.returns_data.val, "SPY", "TLT",
                                      config.ROLLING_CORR_WINDOW)
       IN  /\ result' = Call("rolling_correlation", None, did.outcome)
           /\ IF did.outcome.raised
              THEN /\ main' = Abort(did.outcome)
                   /\ UNCHANGED <<analyzer, handed>>
              ELSE /\ analyzer' = [analyzer EXCEPT !.returns_data = did.stored]
                   /\ handed' = HandOver(Released(handed, "analyzer.returns_data"),
                                         "analyzer.returns_data", did.stored.val)
                   /\ main' = [Advance("portfolio", "correlation") EXCEPT
                                  !.corr_data = did.stored]
    /\ UNCHANGED <<config, classifier, classifier_t, shock_analyzer>>

\* analyzer.calculate_portfolio_returns()
MainPortfolio ==
    /\ main # None /\ main.pc = "portfolio"
    /\ LET df == calculate_portfolio_returns(analyzer.returns_data.val,
                                             config.PORTFOLIO_WEIGHTS)
       IN  /\ analyzer' = [analyzer EXCEPT !.returns_data = Some(df)]
           /\ handed' = HandOver(Released(handed, "analyzer.returns_data"),
                                 "analyzer.returns_data", df)
    /\ result' = Call("calculate_portfolio_returns", None, Returned("returns_data"))
    /\ main' = Advance("shocks", "portfolio returns")
    /\ UNCHANGED <<config, classifier, classifier_t, shock_analyzer>>

\* shock_analyzer = RateShockAnalyzer(corr_data, config); identify_shocks();
\* if len(shock_dates) > 0: ... else: shock_summary, shock_table = None, None
MainIdentifyShocks ==
    /\ main # None /\ main.pc = "shocks"
    /\ LET data == PlainPrices(main.corr_data.val, config)
           shock_dates == identify_shocks(data, config)
       IN  /\ shock_analyzer' = [data |-> data, shock_dates |-> Some(shock_dates),
                                 shock_responses |-> None]
           /\ main' = [Advance(IF Len(shock_dates) > 0 THEN "measure" ELSE "visualize",
                               "shocks")
                          EXCEPT !.shock_dates = Some(shock_dates)]
    /\ result' = Call("identify_shocks", None, Returned("shock_dates"))
    /\ UNCHANGED <<config, classifier, classifier_t, analyzer, handed>>

\* shock_responses = shock_analyzer.measure_shock_response();
\* if len(shock_responses) > 0: ... else: shock_summary, shock_table = None, None
MainMeasure ==
    /\ main # None /\ main.pc = "measure"
    /\ LET shock_responses == measure_shock_response(shock_analyzer.data, config,
                                                     shock_analyzer.shock_dates.val)
       IN  /\ shock_analyzer' = [shock_analyzer EXCEPT
                                    !.shock_responses = Some(shock_responses)]
           /\ main' = [Advance(IF Len(shock_responses) > 0 THEN "stress" ELSE "visualize",
                               "responses")
                          EXCEPT !.shock_responses = Some(shock_responses)]
    /\ result' = Call("measure_shock_response", None, Returned("shock_responses"))
    /\ UNCHANGED <<config, classifier, classifier_t, analyzer, handed>>

\* shock_summary, shock_table = shock_analyzer.portfolio_stress_test()
MainStressTest ==
    /\ main # None /\ main.pc = "stress"
    /\ \E outcome \in portfolio_stress_test(shock_analyzer, config, None, None) :
         /\ result' = Call("portfolio_stress_test", None, outcome)
         /\ main' = IF outcome.raised THEN Abort(outcome)
                    ELSE [Advance("visualize", "stress test") EXCEPT
                             !.shock_summary = Some(outcome.value.summary),
                             !.shock_table = Some(outcome.value.table)]
    /\ UNCHANGED <<config, classifier, classifier_t, analyzer, shock_analyzer, handed>>

\* viz = Visualizer(analyzer.get_data(), performance_df, shock_table, config);
\* charts = viz.generate_all_charts()
MainVisualize ==
    /\ main # None /\ main.pc = "visualize"
    /\ LET outcome == generate_all_charts(analyzer.returns_data.val,
                                          main.performance_df.val, main.shock_table)
       IN  /\ result' = Call("generate_all_charts", None, outcome)
           /\ main' = IF outcome.raised THEN Abort(outcome)
                      ELSE [Advance("report", "visualization") EXCEPT
                               !.charts = Some(outcome.value)]
    /\ handed' = HandOver(handed, "analyzer.returns_data", analyzer.returns_data.val)
    /\ UNCHANGED <<config, classifier, classifier_t, analyzer, shock_analyzer>>

\* trader_note = generate_trader_note(config, regime_summary, performance_df,
\*                                    shock_summary, shock_table)
MainReport ==
    /\ main # None /\ main.pc = "report"
    /\ LET outcome == generate_trader_note(main.performance_df.val, main.shock_summary,
                                           main.shock_table)
       IN  /\ result' = Call("generate_trader_note", None, outcome)
           /\ main' = IF outcome.raised THEN Abort(outcome)
                      ELSE [Advance("done", "report") EXCEPT
                               !.trader_note = Some(outcome.value)]
    /\ UNCHANGED <<config, classifier, classifier_t, analyzer, shock_analyzer, handed>>

----------------------------------------------------------------------------
(* Specification: main() on combined panels of four blocks of days, each     *)
(* block long enough to give its regime a performance row.  A block moves    *)
(* the policy rate up or down every day, keeps it flat, or keeps it flat     *)
(* with the volatility index above the stress threshold; the long yield      *)
(* steps up on chosen rows.                                                  *)

PipelineDays == 4 * MIN_REGIME_DAYS

BlockPlans ==
    {<<"flat", "up", "down", "stress">>,
     <<"flat", "up", "down", "flat">>,
     <<"flat", "flat", "up", "up">>,
     <<"flat", "down", "up", "stress">>,
     <<"up", "down", "stress", "stress">>}

\* the rows on which the long yield steps up: none, the last row (no forward
\* data), rows early in the panel, both
YieldStepRows ==
    {{}, {PipelineDays}, {MIN_REGIME_DAYS + 2},
     {MIN_REGIME_DAYS + 2, MIN_REGIME_DAYS + 5}, {MIN_REGIME_DAYS + 2, PipelineDays}}

BlockOf(plan, i) == plan[((i - 1) \div MIN_REGIME_DAYS) + 1]
\* the policy rate: 2 up a day in an "up" block, 2 down a day in a "down" block
RECURSIVE RateOn(_, _)
RateOn(plan, i) ==
    IF i = 0 THEN 0
    ELSE RateOn(plan, i - 1)
            + (IF BlockOf(plan, i) = "up" THEN 2
               ELSE IF BlockOf(plan, i) = "down" THEN -2 ELSE 0)

\* dates 100 days apart; SPY alternates between 1 and 2, TLT is 2 on every
\* third day and 1 otherwise
PipelinePanels ==
    {[i \in 1..PipelineDays |->
        [date         |-> 100 * i,
         FED_FUNDS    |-> RateOn(plan, i),
         TREASURY_10Y |-> 2 * Cardinality({r \in steps : r <= i}),
         VIX          |-> IF BlockOf(plan, i) = "stress" THEN 3 ELSE 1,
         SPY          |-> Num(IF i % 2 = 0 THEN 2 ELSE 1),
         TLT          |-> Num(IF i % 3 = 0 THEN 2 ELSE 1)]] :
        plan \in BlockPlans, steps \in YieldStepRows}

PipelineConfig ==
    [QUARTERLY_LOOKBACK    |-> 1,
     VIX_LOOKBACK          |-> 1,
     RATE_CHANGE_THRESHOLD |-> 1,
     VIX_STRESS_THRESHOLD  |-> 2,
     SHOCK_LOOKBACK        |-> 1,
     SHOCK_YIELD_THRESHOLD |-> 1,
     SHOCK_HORIZON         |-> 2,
     ROLLING_CORR_WINDOW   |-> 3,
     TICKERS               |-> <<"SPY", "TLT", "GLD">>,
     PORTFOLIO_WEIGHTS     |-> [SPY |-> 60, TLT |-> 30, GLD |-> 10]]

MainInit ==
    /\ config = PipelineConfig
    /\ main \in {[pc |-> "classify", stages |-> <<>>, combined_data |-> p,
                  regime_summary |-> None, performance_df |-> None, corr_data |-> None,
                  shock_dates |-> None, shock_responses |-> None,
                  shock_summary |-> None, shock_table |-> None,
                  charts |-> None, trader_note |-> None, error |-> None] :
                    p \in PipelinePanels}
    /\ classifier = None
    /\ classifier_t = None
    /\ analyzer = None
    /\ shock_analyzer = None
    /\ result = None
    /\ handed = {}

MainNext ==
    \/ MainClassify
    \/ MainReturns
    \/ MainPerformance
    \/ MainCorrelation
    \/ MainPortfolio
    \/ MainIdentifyShocks
    \/ MainMeasure
    \/ MainStressTest
    \/ MainVisualize
    \/ MainReport

SpecMain == MainInit /\ [][MainNext]_vars

----------------------------------------------------------------------------
(* Claims about main *)

StagesDone == {main.stages[k] : k \in 1..Len(main.stages)}
PipelineOrder ==
    <<"classify", "returns", "performance", "correlation", "portfolio returns",
      "shocks", "responses", "stress test", "visualization", "report">>
PlaceOf(stage) == CHOOSE k \in 1..Len(PipelineOrder) : PipelineOrder[k] = stage
\* the stages completed so far were completed in the pipeline's order
StagesInOrder ==
    \A k, l \in 1..Len(main.stages) :
        k < l => PlaceOf(main.stages[k]) < PlaceOf(main.stages[l])
\* the shock stage ended without a stress test: no event, or no response
NoStressTestCase ==
    /\ "shocks" \in StagesDone
    /\ \/ Len(main.shock_dates.val) = 0
       \/ "responses" \in StagesDone /\ Len(main.shock_responses.val) = 0
StressTestedAfterResponses ==
    "stress test" \in StagesDone =>
        /\ Len(main.shock_dates.val) > 0
        /\ "responses" \in StagesDone
        /\ Len(main.shock_responses.val) > 0
RegimesWithRecords ==
    {main.performance_df.val[k].Regime : k \in 1..Len(main.performance_df.val)}
MissingRegimeRecord == \E r \in 1..Len(REGIMES) : REGIMES[r] \notin RegimesWithRecords

\* C24 as stated: the stress test runs only after identify_shocks returned an
\* event and measure_shock_response a response; in every other case the shock
\* summary and table are None, main raises nothing, and the stages follow the
\* order classify, returns, performance, correlation, portfolio returns,
\* shocks, visualization, report.
C24_Original ==
    main # None =>
        /\ StressTestedAfterResponses
        /\ StagesInOrder
        /\ NoStressTestCase =>
              /\ main.shock_summary = None
              /\ main.shock_table = None
              /\ main.pc # "raised"

\* no shock event was found and main ended in the chart stage with the
\* KeyError of plot_performance_heatmaps, a regime having no performance row;
\* no report was written
C24_Witness ==
    /\ main # None
    /\ NoStressTestCase
    /\ Len(main.shock_dates.val) = 0
    /\ main.shock_summary = None /\ main.shock_table = None
    /\ main.pc = "raised"
    /\ main.error = Some(Raised("KeyError", "plot_performance_heatmaps"))
    /\ MissingRegimeRecord
    /\ main.stages = <<"classify", "returns", "performance", "correlation",
                       "portfolio returns", "shocks">>
    /\ main.trader_note = None

\* what main does: the branch on the shock events is as stated and raises
\* nothing; main ends in the chart stage exactly when a regime has no
\* performance row, and otherwise writes the report, with the shock
\* section present exactly after a stress test
C24_BranchAndCharts ==
    main # None =>
        /\ StressTestedAfterResponses
        /\ StagesInOrder
        /\ NoStressTestCase => main.shock_summary = None /\ main.shock_table = None
        /\ main.pc = "raised" =>
              /\ main.error = Some(Raised("KeyError", "plot_performance_heatmaps"))
              /\ MissingRegimeRecord
        /\ main.pc \in {"report", "done"} => ~MissingRegimeRecord
        /\ main.pc = "done" =>
              main.trader_note
                  = Some(IF "stress test" \in StagesDone THEN "Portfolio Impact"
                         ELSE "Insufficient rate shock events")

\* main completed without a stress test: no event, the note without the shock
\* section
C24_CompletedWithoutShocks ==
    /\ main # None
    /\ main.pc = "done"
    /\ Len(main.shock_dates.val) = 0
    /\ main.shock_table = None
    /\ main.trader_note = Some("Insufficient rate shock events")
    /\ main.stages = <<"classify", "returns", "performance", "correlation",
                       "portfolio returns", "shocks", "visualization", "report">>

====
